---------------------------- MODULE Spec2Model ----------------------------
(***************************************************************************)
(* A model of the MIMIC-IV to CLIF table builders: the respiratory-support *)
(* builder (src/src/tables/respiratory_support.py), the continuous         *)
(* medication builder (src/src/tables/medication_admin_continuous.py), the *)
(* pivots and the CAM-ICU total of the patient-assessments builder, the    *)
(* patient builder (src/src/tables/patient.py), construct_mapper_dict and  *)
(* find_duplicates of src/src/utils.py, the base pipeline class            *)
(* (src/src/tables/base.py) and the top-level driver (src/main.py).        *)
(*                                                                         *)
(* A pandas DataFrame is a sequence of records, one record per row, in     *)
(* frame order.  A row's index label is the field "index" where the code   *)
(* addresses rows by label (drop, idxmin, idxmax).  A missing value (NaN,  *)
(* None, NaT) is Null.  The "value" column of the event tables is of       *)
(* object dtype; its cells are written as strings ("14" is the number 14). *)
(***************************************************************************)
EXTENDS Integers, Sequences, FiniteSets, TLC

VARIABLES
    pc,                  \* the stage the builder under study has reached
    resp_events,         \* fio2_set_cleaned: the long table given to duplicates_removed
    resp_events_clean,   \* duplicates_removed: its result
    resp_wider_cleaned,  \* pivoted_wider_and_coalesced: its result
    resp_final,          \* renamed_reordered_recasted: its result
    resp_imputed,        \* tracheostomy_imputed: its result
    mac_events_s,        \* the medication orders, sorted (line 87)
    mac_ldf,             \* the long medication table before deduplication (line 117)
    mac_ldfd,            \* the long medication table after deduplication (line 162)
    mac_ldfdf,           \* the medication table that is saved (line 175)
    braden,              \* patient_assessments: the Braden events (line 91)
    braden_w,            \* patient_assessments: the Braden events pivoted (line 99)
    cam_extracted,       \* patient_assessments: the CAM-ICU events (line 200)
    cam_wide,            \* patient_assessments: the CAM-ICU events pivoted (line 222)
    mapping_df,          \* utils: the mapping table given to construct_mapper_dict
    mapper_args,         \* utils: the other arguments of construct_mapper_dict
    mapper_dict,         \* utils: the dict construct_mapper_dict returns
    config,              \* main.py: the configuration read from config.json
    counter,             \* main.py: the counter of main() (line 22)
    attempts,            \* main.py: the tables whose try block was entered, in order
    outcomes,            \* main.py: how each attempt ended
    result,              \* main.py: what main() left to its caller
    executed,            \* respiratory_support._main: the nodes dr.execute has run, with their results
    schema_ok,           \* respiratory_support._main: whether the final table conforms to CLIF_RESP_SCHEMA
    mimic_patients,      \* patient.py: the patients table read at line 39
    mimic_admissions,    \* patient.py: the admissions table read at line 40
    patient_final,       \* patient.py: the table given to save_to_rclif (line 174)
    cols,                \* utils.find_duplicates: its argument cols
    duplicates,          \* utils.find_duplicates: the frame it returned
    extracted_mimic_events_translated, \* the events with their variable names
    none_removed,        \* none_value_rows_removed: the events without the 'None' values
    fio2_cleaned,        \* fio2_set_cleaned: the events with the FiO2 values cleaned
    cam_total,           \* cam_total_computed: the wide CAM-ICU table with loc and cam_total
    data,                \* base.py: self.data
    dev_mode,            \* base.py: self._dev_mode
    step_results,        \* base.py: self._step_results
    current_step,        \* base.py: self._current_step
    step_order,          \* base.py: self._step_order
    calls,               \* base.py: the tracked steps and clear_results calls made so far
    decorated,           \* base.py: whether the pipeline's steps carry intm_store_in_dev
    returned,            \* base.py: what extract and transform returned in run
    log,                 \* base.py: the messages run and load gave to self.logger
    saved,               \* base.py: the calls of save_to_rclif
    exception            \* base.py: the exception run raised to its caller

respVars == <<resp_events, resp_events_clean, resp_wider_cleaned, resp_final, resp_imputed>>

macVars == <<mac_events_s, mac_ldf, mac_ldfd, mac_ldfdf>>

paVars == <<braden, braden_w, cam_extracted, cam_wide>>

mapVars == <<mapping_df, mapper_args, mapper_dict>>

drvVars == <<config, counter, attempts, outcomes, result>>

dagVars == <<executed, schema_ok>>

patVars == <<mimic_patients, mimic_admissions, patient_final>>

\* The variables of the parts of the repository other than the two builders above.
findVars == <<cols, duplicates>>

cleanVars == <<extracted_mimic_events_translated, none_removed, fio2_cleaned>>

camVars == <<cam_total>>

pipeVars == <<data, dev_mode, step_results, current_step, step_order, calls, decorated, returned, log, saved, exception>>

auxVars == <<paVars, mapVars, drvVars, dagVars, patVars, findVars, cleanVars, camVars, pipeVars>>

\* What an action of one part leaves alone: the variables of the other parts.
notPaVars == <<respVars, macVars, mapVars, drvVars, dagVars, patVars, findVars, cleanVars, camVars, pipeVars>>

notMapVars == <<respVars, macVars, paVars, drvVars, dagVars, patVars, findVars, cleanVars, camVars, pipeVars>>

notDrvVars == <<respVars, macVars, paVars, mapVars, dagVars, patVars, findVars, cleanVars, camVars, pipeVars>>

notDagVars == <<respVars, macVars, paVars, mapVars, drvVars, patVars, findVars, cleanVars, camVars, pipeVars>>

notPatVars == <<respVars, macVars, paVars, mapVars, drvVars, dagVars, findVars, cleanVars, camVars, pipeVars>>

notFindVars == <<respVars, macVars, paVars, mapVars, drvVars, dagVars, patVars, cleanVars, camVars, pipeVars>>

notCleanVars == <<respVars, macVars, paVars, mapVars, drvVars, dagVars, patVars, findVars, camVars, pipeVars>>

notCamVars == <<respVars, macVars, paVars, mapVars, drvVars, dagVars, patVars, findVars, cleanVars, pipeVars>>

notPipeVars == <<respVars, macVars, paVars, mapVars, drvVars, dagVars, patVars, findVars, cleanVars, camVars>>

vars == <<pc, respVars, macVars, auxVars>>

\* A part of the repository that a specification does not run stays as built.
IdleResp ==
    /\ resp_events = <<>>
    /\ resp_events_clean = <<>>
    /\ resp_wider_cleaned = <<>>
    /\ resp_final = <<>>
    /\ resp_imputed = <<>>

IdleMac ==
    /\ mac_events_s = <<>>
    /\ mac_ldf = <<>>
    /\ mac_ldfd = <<>>
    /\ mac_ldfdf = <<>>

IdlePa ==
    /\ braden = <<>>
    /\ braden_w = {}
    /\ cam_extracted = <<>>
    /\ cam_wide = {}

\* Lines 241-244: the defaults of the arguments of construct_mapper_dict.
IdleMap ==
    /\ mapping_df = <<>>
    /\ mapper_args = [map_none_to_none |-> FALSE, excluded_item_ids |-> {},
                      decision_col |-> "decision"]
    /\ mapper_dict = <<>>

\* The tables of config["clif_tables"]: the modules main.py imports (lines 2-3),
\* in the order of the configuration.
ConfiguredTables ==
    <<"patient", "hospitalization", "adt", "vitals", "labs", "patient_assessments",
      "respiratory_support", "medication_admin_continuous", "position">>

TableNames == {ConfiguredTables[i] : i \in DOMAIN ConfiguredTables}

IdleDriver ==
    /\ config = [clif_tables |-> [t \in TableNames |-> 0],
                 create_mimic_parquet_from_csv |-> 0]
    /\ counter = 1
    /\ attempts = <<>>
    /\ outcomes = <<>>
    /\ result = <<>>

IdleDag ==
    /\ executed = <<>>
    /\ schema_ok = TRUE

IdlePat ==
    /\ mimic_patients = <<>>
    /\ mimic_admissions = <<>>
    /\ patient_final = <<>>

IdleFind ==
    /\ cols = <<"hadm_id", "time", "itemid">>
    /\ duplicates = <<>>

IdleClean ==
    /\ extracted_mimic_events_translated = <<>>
    /\ none_removed = <<>>
    /\ fio2_cleaned = <<>>

IdleCam ==
    /\ cam_total = {}

IdlePipe ==
    /\ data = "None"
    /\ dev_mode = FALSE
    /\ step_results = <<>>
    /\ current_step = "None"
    /\ step_order = <<>>
    /\ calls = <<>>
    /\ decorated = FALSE
    /\ returned = <<>>
    /\ log = <<>>
    /\ saved = <<>>
    /\ exception = "None"

IdleAux == IdlePa /\ IdleMap /\ IdleDriver /\ IdleDag /\ IdlePat /\ IdleFind /\ IdleClean /\ IdleCam /\ IdlePipe

Null == "<NA>"

\* A numeric cell is <<x>>, and a missing numeric cell (NaN) is the empty tuple.
NaN == <<>>

(***************************************************************************)
(* Bounds of the model.                                                    *)
(***************************************************************************)
MaxEvents == 3         \* rows of the long event table given to duplicates_removed
MaxCleanEvents == 3    \* rows of the long event table given to the pivot
MaxWideRows == 3       \* rows of the wide table given to the latch
MaxOrders == 3         \* medication orders given to the medication builder
MaxAssessEvents == 3   \* rows of the Braden or CAM-ICU event table given to a pivot
MaxMappingRows == 2    \* rows of the mapping table given to construct_mapper_dict
MaxAdmissions == 3     \* rows of the admissions table given to patient.main
MaxPatientRows == 2    \* rows of the patients table given to patient.main
MaxTranslated == 3      \* rows of extracted_mimic_events_translated
MaxCamWideRows == 1     \* rows of cam_wide given to cam_total_computed
MaxCalls == 3          \* tracked steps and clear_results calls on a pipeline

\* Encounters and timestamps of the modelled part of the tables.
Hadms == {1, 2}
EventTimes == {1}
WideTimes == {1, 2, 3}

(***************************************************************************)
(* Generic frame helpers.                                                  *)
(***************************************************************************)
RECURSIVE KeepPositions(_, _, _)
KeepPositions(df, P, i) ==
    IF i > Len(df) THEN <<>>
    ELSE (IF i \in P THEN <<df[i]>> ELSE <<>>) \o KeepPositions(df, P, i + 1)

\* The rows of df at the positions P, in frame order (boolean-mask selection).
Rows(df, P) == KeepPositions(df, P, 1)

\* df.drop(labels): every row whose index label is in labels goes.
DropLabels(df, labels) == Rows(df, {i \in DOMAIN df : df[i].index \notin labels})

\* df.dropna(subset = "value")
DropNaValue(df) == Rows(df, {i \in DOMAIN df : df[i].value # Null})

EventKey(r) == <<r.hadm_id, r.time, r.itemid>>

\* The key of a row over the columns subset.
KeyOver(r, subset) == [c \in DOMAIN subset |-> r[subset[c]]]

\* df.duplicated(subset, keep = "first"): the rows that repeat an earlier row.
duplicated_keep_first(df, subset) ==
    {i \in DOMAIN df : \E j \in 1..(i - 1) : KeyOver(df[j], subset) = KeyOver(df[i], subset)}

\* df.duplicated(subset, keep = "last"): the rows that a later row repeats.
duplicated_keep_last(df, subset) ==
    {i \in DOMAIN df :
        \E j \in (i + 1)..Len(df) : KeyOver(df[j], subset) = KeyOver(df[i], subset)}

\* df.duplicated(subset, keep = False): marked by either pass.
duplicated(df, subset) ==
    duplicated_keep_first(df, subset) \cup duplicated_keep_last(df, subset)

\* utils.py, lines 339-347: df[df.duplicated(subset = cols, keep = False)].
find_duplicates_on(df, subset) == Rows(df, duplicated(df, subset))

\* find_duplicates(df) with the default cols ["hadm_id", "time", "itemid"].
find_duplicates(df) == find_duplicates_on(df, <<"hadm_id", "time", "itemid">>)

\* Lines 195-197 left out: the duplicated reads of other stays stay.
DropDuplicateKeysSkipped(df) == df

\* df.drop_duplicates(subset = ["hadm_id", "time", "itemid"]): the first row of each key stays.
DropDuplicateKeys(df) ==
    Rows(df, {i \in DOMAIN df : \A j \in DOMAIN df : j < i => EventKey(df[j]) # EventKey(df[i])})


(***************************************************************************)
(* Vocabulary of the respiratory builder.                                  *)
(***************************************************************************)
RESP_DEVICE_RANK ==
    <<"IMV", "NIPPV", "CPAP", "High Flow NC", "Face Mask", "Trach Collar",
      "Nasal Cannula", "Room Air", "Other">>

\* RESP_DEVICE_RANK.index(x): the 0-based place of x in the ranking.
RankIndex(x) == (CHOOSE i \in DOMAIN RESP_DEVICE_RANK : RESP_DEVICE_RANK[i] = x) - 1

\* The item ids the builder names.
ItemDevice == 226732
DupReadsStay == 36123037
OtherStay == DupReadsStay + 1
Item225448 == 225448
Item226237 == 226237
Item223834 == 223834
Item227287 == 227287
Item224685 == 224685
Item224686 == 224686
Item224421 == 224421
Item224688 == 224688
Item227581 == 227581
Item224690 == 224690
Item224422 == 224422
Item224691 == 224691
Item227582 == 227582
Item220339 == 220339
Item227579 == 227579
Item223849 == 223849
Item229314 == 229314
Item227577 == 227577

\* resp_device_mapper(): device_name -> device_category, built by
\* construct_mapper_dict with map_none_to_none = True (the keys None and "None"
\* map to None).  The rows of the mapping csv are data; these are the rows for
\* the device names the model uses.  A name outside the keys raises KeyError.
resp_device_mapper ==
    [x \in {"Endotracheal tube", "Tracheostomy tube", "Trach mask",
            "High flow nasal cannula", "Nasal cannula", "None"} |->
        CASE x = "Endotracheal tube" -> "IMV"
          [] x = "Tracheostomy tube" -> "IMV"
          [] x = "Trach mask" -> "Trach Collar"
          [] x = "High flow nasal cannula" -> "High Flow NC"
          [] x = "Nasal cannula" -> "Nasal Cannula"
          [] x = "None" -> Null]

\* resp_mode_mapper(): mode_name -> mode_category (map_none_to_none = False).
resp_mode_mapper ==
    [x \in {"CMV/ASSIST", "PSV/SBT"} |->
        CASE x = "CMV/ASSIST" -> "Assist Control-Volume Control"
          [] x = "PSV/SBT" -> "Pressure Support/CPAP"]

\* resp_mapper(): itemid -> variable, for the items the model uses.
resp_mapper ==
    [x \in {ItemDevice, Item225448, Item226237, Item223834, Item227287, Item224685,
            Item224686, Item224421, Item224688, Item227581, Item224690, Item224422,
            Item224691, Item227582, Item220339, Item227579, Item223849, Item229314,
            Item227577} |->
        CASE x = ItemDevice -> "device_name"
          [] x \in {Item225448, Item226237} -> "tracheostomy"
          [] x \in {Item223834, Item227287} -> "lpm_set"
          [] x \in {Item224685, Item224686, Item224421} -> "tidal_volume_obs"
          [] x \in {Item224688, Item227581} -> "resp_rate_set"
          [] x \in {Item224690, Item224422} -> "resp_rate_obs"
          [] x \in {Item224691, Item227582} -> "flow_rate_set"
          [] x \in {Item220339, Item227579} -> "peep_set"
          [] x \in {Item223849, Item229314, Item227577} -> "mode_name"]

(***************************************************************************)
(* duplicates_removed                                                      *)
(***************************************************************************)
\* resp_duplicates.query("itemid == 226732")
resp_duplicates_devices(df) ==
    LET d == find_duplicates(df)
    IN  Rows(d, {i \in DOMAIN d : d[i].itemid = ItemDevice})

\* The lambda of line 168: resp_device_mapper[x] if pd.notna(x) else None.
DeviceCategory(x) == IF x # Null THEN resp_device_mapper[x] ELSE Null

\* Line 168 raises KeyError on a device name that is no key of the mapper, and
\* line 172 raises ValueError on a category that is not in RESP_DEVICE_RANK.
DuplicatesRemovedRaises(df) ==
    LET d == resp_duplicates_devices(df)
    IN  \E i \in DOMAIN d :
            \/ d[i].value # Null /\ d[i].value \notin DOMAIN resp_device_mapper
            \/ /\ d[i].value # Null
               /\ d[i].value \in DOMAIN resp_device_mapper
               /\ resp_device_mapper[d[i].value] # Null
               /\ \A k \in DOMAIN RESP_DEVICE_RANK :
                      RESP_DEVICE_RANK[k] # resp_device_mapper[d[i].value]

\* resp_duplicates_devices after dropna(subset = "device_category").
RankedDevices(df) ==
    LET d == resp_duplicates_devices(df)
    IN  Rows(d, {i \in DOMAIN d : DeviceCategory(d[i].value) # Null})

DeviceRank(r) == RankIndex(DeviceCategory(r.value))

\* groupby(["hadm_id", "time", "itemid"])["rank"].idxmax(): a slip for idxmin.
top_ranked_device_indices_idxmax(df) ==
    LET d == RankedDevices(df)
    IN  {d[i].index : i \in {i \in DOMAIN d :
            \A j \in DOMAIN d : EventKey(d[j]) = EventKey(d[i]) =>
                \/ DeviceRank(d[j]) < DeviceRank(d[i])
                \/ DeviceRank(d[j]) = DeviceRank(d[i]) /\ j >= i}}

\* Of the rows of the lowest rank of a key, the label of the last and not of
\* the first.
top_ranked_device_indices_last(df) ==
    LET d == RankedDevices(df)
    IN  {d[i].index : i \in {i \in DOMAIN d :
            \A j \in DOMAIN d : EventKey(d[j]) = EventKey(d[i]) =>
                \/ DeviceRank(d[j]) > DeviceRank(d[i])
                \/ DeviceRank(d[j]) = DeviceRank(d[i]) /\ j <= i}}

\* groupby(["hadm_id", "time", "itemid"])["rank"].idxmin(): per key, the label of
\* the first row of the lowest rank.
top_ranked_device_indices(df) ==
    LET d == RankedDevices(df)
    IN  {d[i].index : i \in {i \in DOMAIN d :
            \A j \in DOMAIN d : EventKey(d[j]) = EventKey(d[i]) =>
                \/ DeviceRank(d[j]) > DeviceRank(d[i])
                \/ DeviceRank(d[j]) = DeviceRank(d[i]) /\ j >= i}}

\* resp_duplicates_devices.index.difference(top_ranked_device_indices)
lower_ranked_device_indices(df) ==
    LET d == RankedDevices(df)
    IN  {d[i].index : i \in DOMAIN d} \ top_ranked_device_indices(df)

\* find_duplicates(resp_events_clean).query("stay_id == 36123037").index
setting_duplicate_indices_to_drop(df) ==
    LET d == find_duplicates(df)
    IN  {d[i].index : i \in {i \in DOMAIN d : d[i].stay_id = DupReadsStay}}

\* Lines 183-203.
duplicates_removed(df) ==
    LET dropped1 == DropNaValue(DropLabels(df, lower_ranked_device_indices(df)))
        dropped2 == DropLabels(dropped1, setting_duplicate_indices_to_drop(dropped1))
        dropped3 == DropDuplicateKeys(dropped2)
    IN  [i \in DOMAIN dropped3 |->
            [dropped3[i] EXCEPT !.variable = resp_mapper[dropped3[i].itemid]]]

(***************************************************************************)
(* pivoted_wider_and_coalesced                                             *)
(***************************************************************************)
WideKey(r) == <<r.hadm_id, r.time>>

KeyLess(a, b) == a[1] < b[1] \/ (a[1] = b[1] /\ a[2] < b[2])

RECURSIVE SortKeys(_)
SortKeys(S) ==
    IF S = {} THEN <<>>
    ELSE LET m == CHOOSE x \in S : \A y \in S : x = y \/ KeyLess(x, y)
         IN  <<m>> \o SortKeys(S \ {m})

\* The cell of the pivot at index k = (hadm_id, time), column item: the value of
\* the one event of that key, NaN when there is none.
Cell(df, k, item) ==
    IF \E i \in DOMAIN df : EventKey(df[i]) = <<k[1], k[2], item>>
    THEN df[CHOOSE i \in DOMAIN df : EventKey(df[i]) = <<k[1], k[2], item>>].value
    ELSE Null

\* a.fillna(b), cell by cell: b where a is null.
fillna_reversed(a, b) == IF b = Null THEN a ELSE b

fillna(a, b) == IF a = Null THEN b ELSE a

\* One row per event instead of one row per (hadm_id, time).
PivotIndexPerEvent(df) == [i \in DOMAIN df |-> WideKey(df[i])]

\* The index of the pivot, sorted by convert_and_sort_datetime (lines 221-228).
PivotIndex(df) == SortKeys({WideKey(df[i]) : i \in DOMAIN df})

\* Lines 229-279: the coalesced columns of the row at index k.
CoalescedRow(df, k) ==
    [hadm_id |-> k[1],
     time |-> k[2],
     device_name |-> Cell(df, k, ItemDevice),
     tracheostomy |-> fillna(Cell(df, k, Item225448), Cell(df, k, Item226237)),
     lpm_set |-> fillna(Cell(df, k, Item223834), Cell(df, k, Item227287)),
     tidal_volume_obs |->
        fillna(fillna(Cell(df, k, Item224685), Cell(df, k, Item224686)),
               Cell(df, k, Item224421)),
     resp_rate_set |-> fillna(Cell(df, k, Item224688), Cell(df, k, Item227581)),
     resp_rate_obs |-> fillna(Cell(df, k, Item224690), Cell(df, k, Item224422)),
     flow_rate_set |-> fillna(Cell(df, k, Item224691), Cell(df, k, Item227582)),
     peep_set |-> fillna(Cell(df, k, Item220339), Cell(df, k, Item227579)),
     mode_name |->
        fillna(Cell(df, k, Item223849),
               fillna(Cell(df, k, Item229314), Cell(df, k, Item227577)))]

\* Series.map(resp_mode_mapper): a name that is no key maps to NaN.
ModeCategory(x) == IF x \in DOMAIN resp_mode_mapper THEN resp_mode_mapper[x] ELSE Null

\* pivot_table(aggfunc = "first") in place of pivot: duplicated entries do not
\* raise, only the device lookup of line 284 can.
PivotedWiderRaisesNotOnDuplicates(df) ==
    \E i \in DOMAIN df :
        /\ df[i].itemid = ItemDevice
        /\ df[i].value # Null
        /\ df[i].value \notin DOMAIN resp_device_mapper

\* DataFrame.pivot raises ValueError when two rows share (hadm_id, time, itemid);
\* the lambda of line 284 raises KeyError on a device name that is no key.
PivotedWiderRaises(df) ==
    \/ find_duplicates(df) # <<>>
    \/ \E i \in DOMAIN df :
          /\ df[i].itemid = ItemDevice
          /\ df[i].value # Null
          /\ df[i].value \notin DOMAIN resp_device_mapper

\* Lines 221-289.
pivoted_wider_and_coalesced(df) ==
    LET idx == PivotIndex(df)
    IN  [n \in DOMAIN idx |->
            LET row == CoalescedRow(df, idx[n])
            IN  [hadm_id |-> row.hadm_id,
                 time |-> row.time,
                 device_name |-> row.device_name,
                 device_category |-> DeviceCategory(row.device_name),
                 mode_name |-> row.mode_name,
                 mode_category |-> ModeCategory(row.mode_name),
                 tracheostomy |-> row.tracheostomy,
                 lpm_set |-> row.lpm_set,
                 tidal_volume_obs |-> row.tidal_volume_obs,
                 resp_rate_set |-> row.resp_rate_set,
                 resp_rate_obs |-> row.resp_rate_obs,
                 flow_rate_set |-> row.flow_rate_set,
                 peep_set |-> row.peep_set]]

(***************************************************************************)
(* renamed_reordered_recasted                                              *)
(***************************************************************************)
\* convert_tz_to_utc: the naive hospital time read in the hospital's zone and
\* moved to UTC; the zone is five time units behind UTC.
convert_tz_to_utc(t) == t + 5

\* Lines 295-313: hadm_id and time are renamed, the columns put in RESP_COLUMNS
\* order, hospitalization_id cast to string, the timestamps moved to UTC.
renamed_reordered_recasted(df) ==
    [n \in DOMAIN df |->
        [hospitalization_id |-> ToString(df[n].hadm_id),
         recorded_dttm |-> convert_tz_to_utc(df[n].time),
         device_name |-> df[n].device_name,
         device_category |-> df[n].device_category,
         mode_name |-> df[n].mode_name,
         mode_category |-> df[n].mode_category,
         tracheostomy |-> df[n].tracheostomy,
         lpm_set |-> df[n].lpm_set,
         resp_rate_set |-> df[n].resp_rate_set,
         flow_rate_set |-> df[n].flow_rate_set,
         peep_set |-> df[n].peep_set,
         tidal_volume_obs |-> df[n].tidal_volume_obs,
         resp_rate_obs |-> df[n].resp_rate_obs]]

(***************************************************************************)
(* tracheostomy_imputed                                                    *)
(***************************************************************************)
\* The device evidence left out: only the explicit flag counts.
trach_implied_flag_only(r) == r.tracheostomy = "1"

\* Lines 344-346: device_name.isin([...]) | (trach_performed == 1).
trach_implied(r) ==
    \/ r.device_name \in {"Tracheostomy tube", "Trach mask"}
    \/ r.tracheostomy = "1"

\* No cumsum: the row's own evidence only.
trach_bool_no_cumsum(df, i) == trach_implied(df[i])

\* cumsum over the whole frame instead of per hospitalization_id.
trach_bool_ungrouped(df, i) ==
    Cardinality({j \in 1..i : trach_implied(df[j])}) # 0

\* Lines 347-349: groupby("hospitalization_id")["trach_implied"]
\* .transform(lambda x: x.cumsum().astype(bool)), at row i of the frame.
trach_bool(df, i) ==
    Cardinality({j \in 1..i :
        /\ df[j].hospitalization_id = df[i].hospitalization_id
        /\ trach_implied(df[j])}) # 0

\* Lines 343-352: the column tracheostomy becomes the latched boolean.
tracheostomy_imputed(df) ==
    [i \in DOMAIN df |-> [df[i] EXCEPT !.tracheostomy = trach_bool(df, i)]]

(***************************************************************************)
(* The respiratory builder's stages (the Hamilton nodes that _main runs    *)
(* for "save", in dependency order).  pc names the last node computed.     *)
(***************************************************************************)
\* d_items.linksto: the event table an item is charted in.
linksto(item) ==
    IF item \in {Item225448, Item226237} THEN "procedureevents" ELSE "chartevents"

\* The events the model draws for duplicates_removed: device reads, ventilator
\* setting reads (stay 36123037 is the stay whose duplicated reads line 192
\* singles out) and a tracheostomy procedure.  "Unlisted device" is a device
\* name with no row in the device mapping.
DedupKinds ==
    {[itemid |-> ItemDevice, value |-> "Endotracheal tube", stay_id |-> OtherStay],
     [itemid |-> ItemDevice, value |-> "Tracheostomy tube", stay_id |-> OtherStay],
     [itemid |-> ItemDevice, value |-> "Nasal cannula", stay_id |-> OtherStay],
     [itemid |-> ItemDevice, value |-> "Unlisted device", stay_id |-> OtherStay],
     [itemid |-> Item224688, value |-> "14", stay_id |-> OtherStay],
     [itemid |-> Item224688, value |-> "18", stay_id |-> OtherStay],
     [itemid |-> Item224688, value |-> "18", stay_id |-> DupReadsStay],
     [itemid |-> Item225448, value |-> "1", stay_id |-> OtherStay]}

\* fetch_mimic_events concatenates the per-table frames without ignore_index:
\* the label of a row is its place in its own event table, and the chartevents
\* rows come before the procedureevents rows.
RowLabel(df, item) ==
    Cardinality({i \in DOMAIN df : linksto(df[i].itemid) = linksto(item)})

FetchEvent ==
    /\ pc = "fio2_set_cleaned"
    /\ Len(resp_events) < MaxEvents
    /\ \E h \in Hadms, t \in EventTimes, k \in DedupKinds :
          /\ linksto(k.itemid) = "chartevents" =>
                \A i \in DOMAIN resp_events : linksto(resp_events[i].itemid) = "chartevents"
          /\ resp_events' = Append(resp_events,
                [index |-> RowLabel(resp_events, k.itemid),
                 hadm_id |-> h, time |-> t, itemid |-> k.itemid,
                 value |-> k.value, stay_id |-> k.stay_id,
                 variable |-> resp_mapper[k.itemid]])
    /\ UNCHANGED <<pc, resp_events_clean, resp_wider_cleaned, resp_final, resp_imputed>>
    /\ UNCHANGED <<macVars, auxVars>>

DuplicatesRemoved ==
    /\ pc = "fio2_set_cleaned"
    /\ IF DuplicatesRemovedRaises(resp_events)
       THEN pc' = "error" /\ UNCHANGED resp_events_clean
       ELSE pc' = "duplicates_removed"
            /\ resp_events_clean' = duplicates_removed(resp_events)
    /\ UNCHANGED <<resp_events, resp_wider_cleaned, resp_final, resp_imputed>>
    /\ UNCHANGED <<macVars, auxVars>>

PivotedWiderAndCoalesced ==
    /\ pc = "duplicates_removed"
    /\ IF PivotedWiderRaises(resp_events_clean)
       THEN pc' = "error" /\ UNCHANGED resp_wider_cleaned
       ELSE pc' = "pivoted_wider_and_coalesced"
            /\ resp_wider_cleaned' = pivoted_wider_and_coalesced(resp_events_clean)
    /\ UNCHANGED <<resp_events, resp_events_clean, resp_final, resp_imputed>>
    /\ UNCHANGED <<macVars, auxVars>>

RenamedReorderedRecasted ==
    /\ pc = "pivoted_wider_and_coalesced"
    /\ pc' = "renamed_reordered_recasted"
    /\ resp_final' = renamed_reordered_recasted(resp_wider_cleaned)
    /\ UNCHANGED <<resp_events, resp_events_clean, resp_wider_cleaned, resp_imputed>>
    /\ UNCHANGED <<macVars, auxVars>>

TracheostomyImputed ==
    /\ pc = "renamed_reordered_recasted"
    /\ pc' = "tracheostomy_imputed"
    /\ resp_imputed' = tracheostomy_imputed(resp_final)
    /\ UNCHANGED <<resp_events, resp_events_clean, resp_wider_cleaned, resp_final>>
    /\ UNCHANGED <<macVars, auxVars>>

RespStages ==
    \/ PivotedWiderAndCoalesced
    \/ RenamedReorderedRecasted
    \/ TracheostomyImputed

\* The builder from duplicates_removed on, for every bounded event table.
InitDedup ==
    /\ pc = "fio2_set_cleaned"
    /\ resp_events = <<>>
    /\ resp_events_clean = <<>>
    /\ resp_wider_cleaned = <<>>
    /\ resp_final = <<>>
    /\ resp_imputed = <<>>
    /\ mac_events_s = <<>>
    /\ mac_ldf = <<>>
    /\ mac_ldfd = <<>>
    /\ mac_ldfdf = <<>>
    /\ IdleAux

NextDedup == FetchEvent \/ DuplicatesRemoved \/ RespStages

SpecDedup == InitDedup /\ [][NextDedup]_vars

\* The builder from the pivot on.  The table given to the pivot is drawn row by
\* row in (hadm_id, time, itemid) order; each item carries one value.
CleanItems == DOMAIN resp_mapper

CleanValue(item) ==
    CASE item = ItemDevice -> "Endotracheal tube"
      [] item = Item225448 -> "1"
      [] item = Item226237 -> "0"
      [] item = Item223834 -> "2"
      [] item = Item227287 -> "4"
      [] item = Item224685 -> "450"
      [] item = Item224686 -> "460"
      [] item = Item224421 -> "470"
      [] item = Item224688 -> "14"
      [] item = Item227581 -> "18"
      [] item = Item224690 -> "16"
      [] item = Item224422 -> "22"
      [] item = Item224691 -> "40"
      [] item = Item227582 -> "50"
      [] item = Item220339 -> "5"
      [] item = Item227579 -> "8"
      [] item = Item223849 -> "CMV/ASSIST"
      [] item = Item229314 -> "PSV/SBT"
      [] item = Item227577 -> "APRV"

\* The values an item is drawn with: its value above, a second and conflicting
\* read of the set respiratory rate, and a device name that has no row in the
\* device mapping.
CleanValues(item) ==
    CASE item = Item224688 -> {CleanValue(item), "20"}
      [] item = ItemDevice -> {CleanValue(item), "Unlisted device"}
      [] OTHER -> {CleanValue(item)}

EventKeyLeq(a, b) ==
    \/ KeyLess(a, b)
    \/ a[1] = b[1] /\ a[2] = b[2] /\ a[3] <= b[3]

FetchCleanEvent ==
    /\ pc = "duplicates_removed"
    /\ Len(resp_events_clean) < MaxCleanEvents
    /\ \E h \in Hadms, t \in EventTimes, item \in CleanItems :
          /\ resp_events_clean # <<>> =>
                EventKeyLeq(EventKey(resp_events_clean[Len(resp_events_clean)]), <<h, t, item>>)
          /\ \E v \in CleanValues(item) :
                resp_events_clean' = Append(resp_events_clean,
                   [index |-> Len(resp_events_clean),
                    hadm_id |-> h, time |-> t, itemid |-> item,
                    value |-> v, stay_id |-> OtherStay,
                    variable |-> resp_mapper[item]])
    /\ UNCHANGED <<pc, resp_events, resp_wider_cleaned, resp_final, resp_imputed>>
    /\ UNCHANGED <<macVars, auxVars>>

InitWide ==
    /\ pc = "duplicates_removed"
    /\ resp_events = <<>>
    /\ resp_events_clean = <<>>
    /\ resp_wider_cleaned = <<>>
    /\ resp_final = <<>>
    /\ resp_imputed = <<>>
    /\ mac_events_s = <<>>
    /\ mac_ldf = <<>>
    /\ mac_ldfd = <<>>
    /\ mac_ldfdf = <<>>
    /\ IdleAux

NextWide == FetchCleanEvent \/ RespStages

SpecWide == InitWide /\ [][NextWide]_vars

\* The builder from renamed_reordered_recasted on.  The wide table is drawn row
\* by row in the order the pivot leaves it: ascending and unique (hadm_id, time).
WideDeviceNames == {Null, "Nasal cannula", "Tracheostomy tube", "Trach mask"}
WideTrachFlags == {Null, "0", "1"}

FetchWideRow ==
    /\ pc = "pivoted_wider_and_coalesced"
    /\ Len(resp_wider_cleaned) < MaxWideRows
    /\ \E h \in Hadms, t \in WideTimes, d \in WideDeviceNames, f \in WideTrachFlags :
          /\ resp_wider_cleaned # <<>> =>
                KeyLess(WideKey(resp_wider_cleaned[Len(resp_wider_cleaned)]), <<h, t>>)
          /\ resp_wider_cleaned' = Append(resp_wider_cleaned,
                [hadm_id |-> h, time |-> t,
                 device_name |-> d, device_category |-> DeviceCategory(d),
                 mode_name |-> Null, mode_category |-> Null,
                 tracheostomy |-> f,
                 lpm_set |-> Null, tidal_volume_obs |-> Null, resp_rate_set |-> Null,
                 resp_rate_obs |-> Null, flow_rate_set |-> Null, peep_set |-> Null])
    /\ UNCHANGED <<pc, resp_events, resp_events_clean, resp_final, resp_imputed>>
    /\ UNCHANGED <<macVars, auxVars>>

InitTrach ==
    /\ pc = "pivoted_wider_and_coalesced"
    /\ resp_events = <<>>
    /\ resp_events_clean = <<>>
    /\ resp_wider_cleaned = <<>>
    /\ resp_final = <<>>
    /\ resp_imputed = <<>>
    /\ mac_events_s = <<>>
    /\ mac_ldf = <<>>
    /\ mac_ldfd = <<>>
    /\ mac_ldfdf = <<>>
    /\ IdleAux

NextTrach == FetchWideRow \/ RenamedReorderedRecasted \/ TracheostomyImputed

SpecTrach == InitTrach /\ [][NextTrach]_vars

(***************************************************************************)
(* Properties of the respiratory builder.                                  *)
(***************************************************************************)
TrachTriggers == {"Tracheostomy tube", "Trach mask"}

\* The rows of a final table that belong to one encounter, in table order.
OfEncounter(df, h) == Rows(df, {i \in DOMAIN df : df[i].hospitalization_id = h})

\* C1: after tracheostomy_imputed, within every hospitalization_id the
\* tracheostomy values read in ascending recorded_dttm order never go from true
\* to false: a row later than a true row of the same encounter is true.
C1_LatchNonDecreasing ==
    pc = "tracheostomy_imputed" =>
        \A i, j \in DOMAIN resp_imputed :
            /\ resp_imputed[i].hospitalization_id = resp_imputed[j].hospitalization_id
            /\ resp_imputed[i].recorded_dttm < resp_imputed[j].recorded_dttm
            /\ resp_imputed[i].tracheostomy = TRUE
            => resp_imputed[j].tracheostomy = TRUE

\* An encounter goes false, true, and stays true on a later row that carries no
\* evidence of its own.
C1_Witness ==
    /\ pc = "tracheostomy_imputed"
    /\ \E i, j, k \in DOMAIN resp_imputed :
          /\ i < j /\ j < k
          /\ resp_imputed[i].hospitalization_id = resp_imputed[j].hospitalization_id
          /\ resp_imputed[j].hospitalization_id = resp_imputed[k].hospitalization_id
          /\ resp_imputed[i].tracheostomy = FALSE
          /\ resp_imputed[j].tracheostomy = TRUE
          /\ resp_final[k].device_name \notin TrachTriggers
          /\ resp_final[k].tracheostomy # "1"
          /\ resp_imputed[k].tracheostomy = TRUE

\* The evidence of one input row, as the specification words it: the coalesced
\* flag is set (neither missing nor zero) or the device name is a trigger.
FlagTruthy(x) == x \notin {Null, "0"}

ImpliedEvidence(r) == FlagTruthy(r.tracheostomy) \/ r.device_name \in TrachTriggers

C3_NoCrossEncounterLeakage ==
    pc = "tracheostomy_imputed" =>
        \A h \in {ToString(x) : x \in Hadms} :
            /\ OfEncounter(resp_imputed, h) = tracheostomy_imputed(OfEncounter(resp_final, h))
            /\ (\A i \in DOMAIN resp_final :
                    resp_final[i].hospitalization_id = h => ~ImpliedEvidence(resp_final[i]))
               => \A i \in DOMAIN resp_imputed :
                    resp_imputed[i].hospitalization_id = h
                    => resp_imputed[i].tracheostomy = FALSE

\* An encounter with evidence comes first in the table, and the rows of a
\* later encounter without evidence are false.
C3_Witness ==
    /\ pc = "tracheostomy_imputed"
    /\ \E i, j \in DOMAIN resp_imputed :
          /\ i < j
          /\ resp_imputed[i].hospitalization_id # resp_imputed[j].hospitalization_id
          /\ resp_imputed[i].tracheostomy = TRUE
          /\ resp_imputed[j].tracheostomy = FALSE

\* C4: the table returned by pivoted_wider_and_coalesced, and the tables the
\* later stages make of it, have at most one row per (hadm_id, time) /
\* (hospitalization_id, recorded_dttm).
C4_OneRowPerEncounterTime ==
    /\ \A i, j \in DOMAIN resp_wider_cleaned :
          WideKey(resp_wider_cleaned[i]) = WideKey(resp_wider_cleaned[j]) => i = j
    /\ \A i, j \in DOMAIN resp_final :
          /\ resp_final[i].hospitalization_id = resp_final[j].hospitalization_id
          /\ resp_final[i].recorded_dttm = resp_final[j].recorded_dttm
          => i = j
    /\ \A i, j \in DOMAIN resp_imputed :
          /\ resp_imputed[i].hospitalization_id = resp_imputed[j].hospitalization_id
          /\ resp_imputed[i].recorded_dttm = resp_imputed[j].recorded_dttm
          => i = j

\* Three events, two of them at one (hadm_id, time), end as two final rows.
C4_Witness ==
    /\ pc = "tracheostomy_imputed"
    /\ Len(resp_events_clean) = 3
    /\ Len(resp_wider_cleaned) = 2
    /\ Len(resp_imputed) = 2

\* The coalescing groups: output column -> source items in order of precedence.
CoalesceGroups ==
    [tracheostomy |-> <<Item225448, Item226237>>,
     lpm_set |-> <<Item223834, Item227287>>,
     tidal_volume_obs |-> <<Item224685, Item224686, Item224421>>,
     resp_rate_set |-> <<Item224688, Item227581>>,
     resp_rate_obs |-> <<Item224690, Item224422>>,
     flow_rate_set |-> <<Item224691, Item227582>>,
     peep_set |-> <<Item220339, Item227579>>,
     mode_name |-> <<Item223849, Item229314, Item227577>>]

\* The value of the first item of the list that is non-null at key k.
FirstNonNull(df, k, items) ==
    IF \E m \in DOMAIN items : Cell(df, k, items[m]) # Null
    THEN Cell(df, k, items[CHOOSE m \in DOMAIN items :
                              /\ Cell(df, k, items[m]) # Null
                              /\ \A n \in 1..(m - 1) : Cell(df, k, items[n]) = Null])
    ELSE Null

\* C5: on every wide row and for every coalescing group, the output column is
\* the value of the first item, in the listed order, that is non-null on the
\* row, and null only when every item of the group is null; 224688 = 14 with
\* 227581 = 18 gives resp_rate_set = 14.
C5_FirstNonNullWins ==
    pc = "pivoted_wider_and_coalesced" =>
        \A n \in DOMAIN resp_wider_cleaned :
            LET row == resp_wider_cleaned[n]
                k == WideKey(row)
            IN  /\ \A c \in DOMAIN CoalesceGroups :
                      row[c] = FirstNonNull(resp_events_clean, k, CoalesceGroups[c])
                /\ (/\ Cell(resp_events_clean, k, Item224688) = "14"
                    /\ Cell(resp_events_clean, k, Item227581) = "18")
                   => row.resp_rate_set = "14"

\* A row with 224688 = 14 and 227581 = 18, and a row where the second of three
\* tidal volume items is the first that is present.
C5_Witness ==
    /\ pc = "pivoted_wider_and_coalesced"
    /\ \E n, m \in DOMAIN resp_wider_cleaned :
          /\ Cell(resp_events_clean, WideKey(resp_wider_cleaned[n]), Item224688) = "14"
          /\ Cell(resp_events_clean, WideKey(resp_wider_cleaned[n]), Item227581) = "18"
          /\ resp_wider_cleaned[n].resp_rate_set = "14"
          /\ Cell(resp_events_clean, WideKey(resp_wider_cleaned[m]), Item224685) = Null
          /\ Cell(resp_events_clean, WideKey(resp_wider_cleaned[m]), Item224686) # Null
          /\ resp_wider_cleaned[m].tidal_volume_obs = CleanValue(Item224686)

\* C6: no two rows of the output of duplicates_removed share
\* (hadm_id, time, itemid): find_duplicates of the output is empty.
C6_NoDuplicateEventKeys ==
    /\ find_duplicates(resp_events_clean) = <<>>
    /\ \A i, j \in DOMAIN resp_events_clean :
          EventKey(resp_events_clean[i]) = EventKey(resp_events_clean[j]) => i = j

\* The input held two conflicting reads of one setting outside stay 36123037,
\* and one of them is left.
C6_Witness ==
    /\ pc = "duplicates_removed"
    /\ \E i, j \in DOMAIN resp_events :
          /\ i # j
          /\ EventKey(resp_events[i]) = EventKey(resp_events[j])
          /\ resp_events[i].itemid = Item224688
          /\ resp_events[i].stay_id = OtherStay
          /\ resp_events[j].stay_id = OtherStay
          /\ resp_events[i].value # resp_events[j].value
          /\ \E n \in DOMAIN resp_events_clean :
                EventKey(resp_events_clean[n]) = EventKey(resp_events[i])

\* The device reads of one (hadm_id, time) in a table.
DeviceGroup(df, h, t) ==
    {i \in DOMAIN df : EventKey(df[i]) = <<h, t, ItemDevice>>}

\* C7: of every duplicate group of device reads (itemid 226732, same hadm_id
\* and time) one row survives duplicates_removed, and it is a row of the group
\* whose device category has the lowest index in RESP_DEVICE_RANK among the
\* rows of the group, in whatever order the rows come.
C7_TopRankedDeviceSurvives ==
    pc = "duplicates_removed" =>
        \A h \in Hadms, t \in EventTimes :
            LET G == DeviceGroup(resp_events, h, t)
                S == DeviceGroup(resp_events_clean, h, t)
            IN  Cardinality(G) >= 2 =>
                   /\ Cardinality(S) = 1
                   /\ \A n \in S :
                         /\ \E i \in G : /\ resp_events[i].index = resp_events_clean[n].index
                                         /\ resp_events[i].value = resp_events_clean[n].value
                         /\ \A i \in G :
                               RankIndex(resp_device_mapper[resp_events_clean[n].value])
                                  <= RankIndex(resp_device_mapper[resp_events[i].value])

\* The nasal cannula read comes before the endotracheal tube read of the same
\* (hadm_id, time), and the endotracheal tube read is the one left.
C7_Witness ==
    /\ pc = "duplicates_removed"
    /\ \E i, j \in DOMAIN resp_events :
          /\ i < j
          /\ EventKey(resp_events[i]) = EventKey(resp_events[j])
          /\ resp_events[i].value = "Nasal cannula"
          /\ resp_events[j].value = "Endotracheal tube"
          /\ \E n \in DOMAIN resp_events_clean :
                /\ EventKey(resp_events_clean[n]) = EventKey(resp_events[j])
                /\ resp_events_clean[n].value = "Endotracheal tube"

(***************************************************************************)
(* medication_admin_continuous.main                                        *)
(***************************************************************************)
\* The medication items of the model and their categories (mac_mapper, built
\* from the mapping csv): two items of one category and one of another.
MacHadms == {1, 2}
MacItems == {1, 2, 3}

mac_mapper ==
    [x \in MacItems |-> IF x = 3 THEN "norepinephrine" ELSE "propofol"]

\* The (starttime, endtime) pairs, the rates and the status of the orders.
MacIntervals == {<<1, 2>>, <<2, 3>>}
MacRates == {100, 109, 200}
MacStatuses == {"Stopped"}

\* Line 87, convert_and_sort_datetime: the orders are in (hadm_id, starttime,
\* endtime, storetime) order and the column "index" numbers them from 0.
OrderSortLeq(a, b) ==
    IF a.hadm_id # b.hadm_id THEN a.hadm_id < b.hadm_id
    ELSE IF a.starttime # b.starttime THEN a.starttime < b.starttime
    ELSE a.endtime <= b.endtime

\* Line 89: drop_duplicates(subset = ["hadm_id", "itemid", "starttime", "rate"]).
OrderKey(o) == <<o.hadm_id, o.itemid, o.starttime, o.rate>>

DropDuplicateOrders(df) ==
    Rows(df, {i \in DOMAIN df : \A j \in DOMAIN df : j < i => OrderKey(df[j]) # OrderKey(df[i])})

\* The order of sort_values(["hadm_id", "itemid", "index", "time"]) on orders.
MeltLess(a, b) ==
    IF a.hadm_id # b.hadm_id THEN a.hadm_id < b.hadm_id
    ELSE IF a.itemid # b.itemid THEN a.itemid < b.itemid
    ELSE a.index < b.index

\* Lines 90-96: melt gives every order a starttime row and an endtime row, and
\* labels the starttime rows 0..m-1 and the endtime rows m..2m-1 in frame order;
\* the sort puts each order's starttime row before its endtime row.  Row n of
\* the result, for the orders df after line 89.
MeltedRow(df, n) ==
    LET m == Len(df)
        k == (n + 1) \div 2
        p == CHOOSE q \in DOMAIN df :
                Cardinality({j \in DOMAIN df : MeltLess(df[j], df[q])}) = k - 1
        isStart == n % 2 = 1
    IN  [index |-> IF isStart THEN p - 1 ELSE m + p - 1,
         hadm_id |-> df[p].hadm_id,
         itemid |-> df[p].itemid,
         rate |-> df[p].rate,
         statusdescription |-> df[p].statusdescription,
         time |-> IF isStart THEN "starttime" ELSE "endtime",
         recorded_dttm |-> IF isStart THEN df[p].starttime ELSE df[p].endtime]

mac_l(df) == [n \in 1..(2 * Len(df)) |-> MeltedRow(df, n)]

\* Line 98: groupby(["hadm_id", "itemid"])[["recorded_dttm"]].transform("diff").
diff(l, n) ==
    IF n > 1 /\ l[n - 1].hadm_id = l[n].hadm_id /\ l[n - 1].itemid = l[n].itemid
    THEN <<l[n].recorded_dttm - l[n - 1].recorded_dttm>>
    ELSE NaN

\* Line 99.
mar(l, n) == IF l[n].time = "starttime" THEN "start" ELSE l[n].statusdescription

\* Line 100.
dose(l, n) == IF l[n].time = "starttime" THEN <<l[n].rate>> ELSE NaN

\* Line 102: mar.shift(1), over the whole frame.
last_mar(l, n) == IF n > 1 THEN mar(l, n - 1) ELSE "nan"

\* A relabelling that also asks the two readings to carry the same status.
new_mar_on_same_token(l, n) ==
    IF diff(l, n) = <<0>> /\ last_mar(l, n) = mar(l, n)
    THEN "continue after " \o last_mar(l, n)
    ELSE mar(l, n)

\* Lines 104-108.
new_mar(l, n) ==
    IF diff(l, n) = <<0>> THEN "continue after " \o last_mar(l, n) ELSE mar(l, n)

\* Lines 111-112.
time_dup(l, n) ==
    \E j \in DOMAIN l :
        /\ j # n
        /\ l[j].hadm_id = l[n].hadm_id
        /\ l[j].itemid = l[n].itemid
        /\ l[j].recorded_dttm = l[n].recorded_dttm

keep(l, n) == ~time_dup(l, n) \/ dose(l, n) # NaN

\* Lines 89-117: the long medication table, with the CLIF column names.
melted_and_filtered(orders) ==
    LET l == mac_l(DropDuplicateOrders(orders))
        ld == [n \in DOMAIN l |->
                  [index |-> l[n].index,
                   hospitalization_id |-> l[n].hadm_id,
                   admin_dttm |-> l[n].recorded_dttm,
                   med_category |-> mac_mapper[l[n].itemid],
                   med_dose |-> dose(l, n),
                   mar_action_name |-> new_mar(l, n)]]
    IN  Rows(ld, {n \in DOMAIN l : keep(l, n)})

\* meds_keycols
MedKey(r) == <<r.hospitalization_id, r.admin_dttm, r.med_category>>

\* find_duplicates(mac_ldf, meds_keycols), as positions of mac_ldf (line 121).
mac_dups(df) ==
    {i \in DOMAIN df : \E j \in DOMAIN df : j # i /\ MedKey(df[j]) = MedKey(df[i])}

\* Line 133: mac_dups[~mac_dups["dose_notna"]].index.
meds_didx_1(df) == {df[i].index : i \in {i \in mac_dups(df) : df[i].med_dose = NaN}}

\* Lines 135-137: the duplicated rows that have a dose and are still duplicated
\* among the rows that have one, as positions of mac_ldf.
mac_dups_d(df) ==
    {i \in mac_dups(df) :
        /\ df[i].med_dose # NaN
        /\ \E j \in mac_dups(df) :
              j # i /\ df[j].med_dose # NaN /\ MedKey(df[j]) = MedKey(df[i])}

Abs(x) == IF x < 0 THEN -x ELSE x

Max(x, y) == IF x >= y THEN x ELSE y

\* Lines 31-32: abs(d0 - d1) / max(d0, d1) <= 0.1 in floating point; a zero
\* divisor gives NaN or inf, which is not <= 0.1.
are_doses_close(d0, d1) ==
    CASE Max(d0, d1) > 0 -> 10 * Abs(d0 - d1) <= Max(d0, d1)
      [] Max(d0, d1) = 0 -> FALSE
      [] Max(d0, d1) < 0 -> TRUE

\* The group of mac_dups_d that row i belongs to.
MedGroup(df, i) == {j \in mac_dups_d(df) : MedKey(df[j]) = MedKey(df[i])}

\* str.len().idxmin(): the row with the shorter name is the one kept.
drop_shorter_action_name_idxmin(df, i) ==
    LET g == MedGroup(df, i)
        a == CHOOSE j \in g : \A k \in g : j <= k
        b == CHOOSE j \in g : \A k \in g : j >= k
    IN  IF Cardinality(g) = 2 /\ are_doses_close(df[a].med_dose[1], df[b].med_dose[1])
        THEN {CHOOSE j \in g : \A k \in g :
                \/ Len(df[j].mar_action_name) < Len(df[k].mar_action_name)
                \/ Len(df[j].mar_action_name) = Len(df[k].mar_action_name) /\ j <= k}
        ELSE g

\* len(group) >= 2 in place of len(group) == 2: the first two rows of a larger
\* group are compared and the one with the shorter name is dropped.
drop_shorter_action_name_two_or_more(df, i) ==
    LET g == MedGroup(df, i)
        a == CHOOSE j \in g : \A k \in g : j <= k
        b == CHOOSE j \in g \ {a} : \A k \in g \ {a} : j <= k
    IN  IF Cardinality(g) >= 2 /\ are_doses_close(df[a].med_dose[1], df[b].med_dose[1])
        THEN IF Len(df[b].mar_action_name) > Len(df[a].mar_action_name)
             THEN g \ {a} ELSE g \ {b}
        ELSE g

\* Lines 35-38, applied to the group of row i: of two rows with close doses the
\* one at str.len().idxmax() is returned (the first of the longest names).
drop_shorter_action_name(df, i) ==
    LET g == MedGroup(df, i)
        a == CHOOSE j \in g : \A k \in g : j <= k
        b == CHOOSE j \in g : \A k \in g : j >= k
    IN  IF Cardinality(g) = 2 /\ are_doses_close(df[a].med_dose[1], df[b].med_dose[1])
        THEN {CHOOSE j \in g : \A k \in g :
                \/ Len(df[j].mar_action_name) > Len(df[k].mar_action_name)
                \/ Len(df[j].mar_action_name) = Len(df[k].mar_action_name) /\ j <= k}
        ELSE g

\* Line 141: groupby(meds_keycols).apply(drop_shorter_action_name).
mac_dups_dd(df) == UNION {drop_shorter_action_name(df, i) : i \in mac_dups_d(df)}

\* Lines 142-144: setdiff1d(mac_dups_d["index"], mac_dups_dd["index"]).
meds_didx_2(df) == {df[i].index : i \in mac_dups_d(df) \ mac_dups_dd(df)}

\* Step 3 of lines 146-149 in force: what is still duplicated is dropped too.
deduplicated_with_step_3(df) ==
    LET dd == mac_dups_dd(df)
        meds_didx_3 == {df[i].index : i \in {i \in dd :
                            \E j \in dd : j # i /\ MedKey(df[j]) = MedKey(df[i])}}
    IN  DropLabels(DropLabels(DropLabels(df, meds_didx_1(df)), meds_didx_2(df)), meds_didx_3)

\* Lines 160-162: mac_ldf.drop(meds_didx_1).drop(meds_didx_2); the third drop
\* is commented out.
deduplicated(df) == DropLabels(DropLabels(df, meds_didx_1(df)), meds_didx_2(df))

\* Lines 164-173: the casts, and a dose of 0 for a row that ends a run.
cast_and_zeroed(df) ==
    [n \in DOMAIN df |->
        [df[n] EXCEPT
            !.hospitalization_id = ToString(df[n].hospitalization_id),
            !.admin_dttm = convert_tz_to_utc(df[n].admin_dttm),
            !.med_dose =
                IF /\ df[n].mar_action_name \in {"Stopped", "FinishedRunning", "Paused"}
                   /\ df[n].med_dose = NaN
                THEN <<0>> ELSE df[n].med_dose]]

\* The medication orders are drawn one by one in the order of line 87.
FetchOrder ==
    /\ pc = "mac_events_s"
    /\ Len(mac_events_s) < MaxOrders
    /\ \E h \in MacHadms, it \in MacItems, iv \in MacIntervals,
          r \in MacRates, st \in MacStatuses :
          LET o == [index |-> Len(mac_events_s), hadm_id |-> h, itemid |-> it,
                    starttime |-> iv[1], endtime |-> iv[2], rate |-> r,
                    statusdescription |-> st]
          IN  /\ mac_events_s # <<>> => OrderSortLeq(mac_events_s[Len(mac_events_s)], o)
              /\ mac_events_s' = Append(mac_events_s, o)
    /\ UNCHANGED <<pc, mac_ldf, mac_ldfd, mac_ldfdf>>
    /\ UNCHANGED <<respVars, auxVars>>

MeltedAndFiltered ==
    /\ pc = "mac_events_s"
    /\ pc' = "mac_ldf"
    /\ mac_ldf' = melted_and_filtered(mac_events_s)
    /\ UNCHANGED <<mac_events_s, mac_ldfd, mac_ldfdf>>
    /\ UNCHANGED <<respVars, auxVars>>

Deduplicated ==
    /\ pc = "mac_ldf"
    /\ pc' = "mac_ldfd"
    /\ mac_ldfd' = deduplicated(mac_ldf)
    /\ UNCHANGED <<mac_events_s, mac_ldf, mac_ldfdf>>
    /\ UNCHANGED <<respVars, auxVars>>

CastAndSaved ==
    /\ pc = "mac_ldfd"
    /\ pc' = "mac_ldfdf"
    /\ mac_ldfdf' = cast_and_zeroed(mac_ldfd)
    /\ UNCHANGED <<mac_events_s, mac_ldf, mac_ldfd>>
    /\ UNCHANGED <<respVars, auxVars>>

InitMed ==
    /\ pc = "mac_events_s"
    /\ resp_events = <<>>
    /\ resp_events_clean = <<>>
    /\ resp_wider_cleaned = <<>>
    /\ resp_final = <<>>
    /\ resp_imputed = <<>>
    /\ mac_events_s = <<>>
    /\ mac_ldf = <<>>
    /\ mac_ldfd = <<>>
    /\ mac_ldfdf = <<>>
    /\ IdleAux

NextMed == FetchOrder \/ MeltedAndFiltered \/ Deduplicated \/ CastAndSaved

SpecMed == InitMed /\ [][NextMed]_vars

(***************************************************************************)
(* Properties of the medication builder.                                   *)
(***************************************************************************)
\* Row i of mac_ldf is a row of the deduplicated table.
Survives(i) == \E n \in DOMAIN mac_ldfd : mac_ldfd[n].index = mac_ldf[i].index

\* Row i of mac_ldf is a row of the saved table.
Saved(i) == \E n \in DOMAIN mac_ldfdf : mac_ldfdf[n].index = mac_ldf[i].index

\* The rows of mac_ldf that share row i's key and have a dose.
WithDose(i) ==
    {j \in DOMAIN mac_ldf :
        MedKey(mac_ldf[j]) = MedKey(mac_ldf[i]) /\ mac_ldf[j].med_dose # NaN}

\* C8: in a duplicate group keyed by (hospitalization_id, admin_dttm,
\* med_category) a row with a null med_dose is removed exactly when the group
\* has a row with a non-null med_dose, and no group loses all of its rows.
C8_NullDropKeepsTheGroup ==
    pc = "mac_ldfd" =>
        \A i \in mac_dups(mac_ldf) :
            /\ mac_ldf[i].med_dose = NaN => (~Survives(i) <=> WithDose(i) # {})
            /\ \E j \in mac_dups(mac_ldf) :
                  MedKey(mac_ldf[j]) = MedKey(mac_ldf[i]) /\ Survives(j)

\* |d1 - d2| / max(d1, d2) <= 0.10, for positive doses.
WithinTenPercent(d1, d2) == 10 * Abs(d1 - d2) <= Max(d1, d2)

\* C9: when exactly two rows of a duplicate group have a dose and the doses are
\* within 10% of each other, exactly one of the two is kept and it is the one
\* with the longer mar_action_name; when the doses are further apart both stay.
C9_CloseDosesKeepLongerName ==
    pc = "mac_ldfd" =>
        \A i, j \in DOMAIN mac_ldf :
            (i < j /\ WithDose(i) = {i, j}) =>
                IF WithinTenPercent(mac_ldf[i].med_dose[1], mac_ldf[j].med_dose[1])
                THEN /\ Survives(i) # Survives(j)
                     /\ Survives(i) =>
                           Len(mac_ldf[i].mar_action_name) >= Len(mac_ldf[j].mar_action_name)
                     /\ Survives(j) =>
                           Len(mac_ldf[j].mar_action_name) >= Len(mac_ldf[i].mar_action_name)
                ELSE Survives(i) /\ Survives(j)

\* Two rows with close doses, the later one with the longer name, and the later
\* one is the one kept.
C9_Witness ==
    /\ pc = "mac_ldfd"
    /\ \E i, j \in DOMAIN mac_ldf :
          /\ i < j /\ WithDose(i) = {i, j}
          /\ WithinTenPercent(mac_ldf[i].med_dose[1], mac_ldf[j].med_dose[1])
          /\ mac_ldf[i].med_dose # mac_ldf[j].med_dose
          /\ Len(mac_ldf[j].mar_action_name) > Len(mac_ldf[i].mar_action_name)
          /\ Survives(j) /\ ~Survives(i)

\* Row i of mac_ldf is in a group that the null-drop rule and the closeness
\* rule leave with more than one row.
Unresolved(i) ==
    /\ mac_ldf[i].med_dose # NaN
    /\ Cardinality(WithDose(i)) >= 2
    /\ ~(/\ Cardinality(WithDose(i)) = 2
         /\ \A j, k \in WithDose(i) :
               WithinTenPercent(mac_ldf[j].med_dose[1], mac_ldf[k].med_dose[1]))

InitReconcile ==
    /\ pc \in {"fio2_set_cleaned", "mac_events_s"}
    /\ resp_events = <<>>
    /\ resp_events_clean = <<>>
    /\ resp_wider_cleaned = <<>>
    /\ resp_final = <<>>
    /\ resp_imputed = <<>>
    /\ mac_events_s = <<>>
    /\ mac_ldf = <<>>
    /\ mac_ldfd = <<>>
    /\ mac_ldfdf = <<>>
    /\ IdleAux

NextReconcile ==
    \/ FetchEvent
    \/ DuplicatesRemoved
    \/ FetchOrder
    \/ MeltedAndFiltered
    \/ Deduplicated

SpecReconcile == InitReconcile /\ [][NextReconcile]_vars

\* C11: the reconcilers are idempotent: duplicates_removed applied to its own
\* output returns it unchanged (and does not raise), and so does the medication
\* null-drop and closeness deduplication applied to its own output.
C11_ReconcilerIdempotent ==
    /\ pc = "duplicates_removed" =>
          /\ ~DuplicatesRemovedRaises(resp_events_clean)
          /\ duplicates_removed(resp_events_clean) = resp_events_clean
    /\ pc = "mac_ldfd" => deduplicated(mac_ldfd) = mac_ldfd

\* The medication deduplication has dropped a null-dose row and one row of a
\* close pair, and a second pass over what is left drops nothing.
C11_Witness ==
    /\ pc = "mac_ldfd"
    /\ meds_didx_1(mac_ldf) # {}
    /\ meds_didx_2(mac_ldf) # {}
    /\ mac_ldfd # <<>>
    /\ deduplicated(mac_ldfd) = mac_ldfd

\* C12: the pivot raises, and returns no table, whenever its input has two
\* rows with the same (hadm_id, time, itemid): no wide table is ever made of
\* such an input, so neither of the conflicting values is kept.
C12_PivotRaisesOnDuplicates ==
    /\ pc \in {"pivoted_wider_and_coalesced", "renamed_reordered_recasted",
               "tracheostomy_imputed"} => find_duplicates(resp_events_clean) = <<>>
    /\ (pc # "duplicates_removed" /\ find_duplicates(resp_events_clean) # <<>>) =>
          /\ pc = "error"
          /\ resp_wider_cleaned = <<>>
          /\ resp_final = <<>>
          /\ resp_imputed = <<>>

\* Two reads of one item at one (hadm_id, time) with different values reach
\* the pivot, and the pivot has raised.
C12_Witness ==
    /\ pc = "error"
    /\ resp_wider_cleaned = <<>>
    /\ \E i, j \in DOMAIN resp_events_clean :
          /\ i # j
          /\ EventKey(resp_events_clean[i]) = EventKey(resp_events_clean[j])
          /\ resp_events_clean[i].value # resp_events_clean[j].value

\* A device name that is not missing and has no row in the device mapping.
UnmappedDevice(x) == x # Null /\ x \notin DOMAIN resp_device_mapper

\* C14: a duplicated device row whose value has no entry in the device
\* mapping does not abort the builder, and is never the row kept for its key
\* when its group also has a row with a mapped category.
C14_UnmappedDuplicateDeviceNotFatal ==
    LET d == resp_duplicates_devices(resp_events)
    IN  (pc # "fio2_set_cleaned" /\ \E i \in DOMAIN d : UnmappedDevice(d[i].value)) =>
           /\ pc # "error"
           /\ \A i, j \in DOMAIN d :
                 ( /\ EventKey(d[i]) = EventKey(d[j])
                   /\ UnmappedDevice(d[i].value)
                   /\ ~UnmappedDevice(d[j].value)
                   /\ DeviceCategory(d[j].value) # Null ) =>
                     \A n \in DOMAIN resp_events_clean :
                        EventKey(resp_events_clean[n]) = EventKey(d[i]) =>
                           ~UnmappedDevice(resp_events_clean[n].value)

\* C15: the category mapping of the wide table raises nothing, so the stage
\* fails only on the pivot's duplicates, and in every wide row device_category
\* and mode_category are the mapped category of the name when there is one and
\* null when the name is null or has no entry.
C15_UnmappedNamesGiveNullCategory ==
    /\ pc = "error" => find_duplicates(resp_events_clean) # <<>>
    /\ \A n \in DOMAIN resp_wider_cleaned :
          LET r == resp_wider_cleaned[n]
          IN  /\ r.device_category =
                    IF r.device_name # Null /\ r.device_name \in DOMAIN resp_device_mapper
                    THEN resp_device_mapper[r.device_name] ELSE Null
              /\ r.mode_category =
                    IF r.mode_name # Null /\ r.mode_name \in DOMAIN resp_mode_mapper
                    THEN resp_mode_mapper[r.mode_name] ELSE Null


(***************************************************************************)
(* The patient-assessments builder (src/src/tables/patient_assessments.py):*)
(* the pivots of the Braden and the CAM-ICU events.                        *)
(*                                                                         *)
(* The result of a DuckDB query is a relation: the wide tables are sets of *)
(* rows.  A wide row holds its cells in the field "value", a function of   *)
(* the labels the pivot makes columns of.                                  *)
(***************************************************************************)
Item228300 == 228300
Item228337 == 228337
Item228336 == 228336

\* The (label, value) pairs of the Braden events of the model.
BradenLabels == {"Braden Activity", "Braden Mobility"}

BradenValues(label) ==
    IF label = "Braden Activity" THEN {"Bedfast", "Chairfast"}
    ELSE {"Very Limited", "No Limitations"}

\* The CAM-ICU items of the model with their labels in d_items: the label of
\* item 228300 is not the one of the later versions of the same question.
CamItems == {Item228300, Item228337, Item228336}

d_items_label(item) ==
    CASE item = Item228300 -> "CAM-ICU MS change"
      [] item = Item228337 -> "CAM-ICU MS Change"
      [] OTHER -> "CAM-ICU Inattention"

CamValues == {"Yes", "No"}

\* PIVOT df ON label USING FIRST(value) GROUP BY hadm_id, time.  FIRST is the
\* value of the row the engine meets first among the rows of a cell; the query
\* has no ORDER BY, so the order in which rows are met is any order, here the
\* bijection "order" of the rows onto their ranks.  A cell without a row is NULL.
PivotFirst(df, order) ==
    LET labels == {df[i].label : i \in DOMAIN df}
        FirstValue(k, l) ==
            LET c == {i \in DOMAIN df : WideKey(df[i]) = k /\ df[i].label = l}
            IN  IF c = {} THEN Null
                ELSE df[CHOOSE i \in c : \A j \in c : order[i] <= order[j]].value
    IN  {[hadm_id |-> k[1], time |-> k[2],
          value |-> [l \in labels |-> FirstValue(k, l)]] :
            k \in {WideKey(df[i]) : i \in DOMAIN df}}

\* Lines 208-217: the subquery of cam_wide, which renames the label of item 228300.
cam_relabelled(df) ==
    [i \in DOMAIN df |->
        [df[i] EXCEPT !.label =
            IF df[i].itemid = Item228300 THEN "CAM-ICU MS Change" ELSE df[i].label]]

\* The rows of a long table that share (hadm_id, time, label) with another row.
DuplicatedCells(df) ==
    {i \in DOMAIN df :
        \E j \in DOMAIN df :
            /\ j # i
            /\ WideKey(df[j]) = WideKey(df[i])
            /\ df[j].label = df[i].label}

\* Line 91: the Braden events as fetched, in any order and with any repeats.
FetchBraden ==
    /\ pc = "braden"
    /\ Len(braden) < MaxAssessEvents
    /\ \E h \in Hadms, t \in EventTimes, l \in BradenLabels :
          \E v \in BradenValues(l) :
             braden' = Append(braden, [hadm_id |-> h, time |-> t, label |-> l, value |-> v])
    /\ UNCHANGED <<pc, braden_w, cam_extracted, cam_wide>>
    /\ UNCHANGED notPaVars

\* Lines 92-99 of braden_fetched.
BradenPivoted ==
    /\ pc = "braden"
    /\ braden # <<>>
    /\ \E order \in Permutations(DOMAIN braden) :
          braden_w' = PivotFirst(braden, order)
    /\ pc' = "braden_w"
    /\ UNCHANGED <<braden, cam_extracted, cam_wide>>
    /\ UNCHANGED notPaVars

\* Lines 199-203: cam_extracted.
FetchCam ==
    /\ pc = "cam_extracted"
    /\ Len(cam_extracted) < MaxAssessEvents
    /\ \E h \in Hadms, t \in EventTimes, item \in CamItems, v \in CamValues :
          cam_extracted' = Append(cam_extracted,
             [hadm_id |-> h, time |-> t, itemid |-> item,
              label |-> d_items_label(item), value |-> v])
    /\ UNCHANGED <<pc, braden, braden_w, cam_wide>>
    /\ UNCHANGED notPaVars

\* Lines 205-222: cam_wide.
CamWide ==
    /\ pc = "cam_extracted"
    /\ cam_extracted # <<>>
    /\ \E order \in Permutations(DOMAIN cam_extracted) :
          cam_wide' = PivotFirst(cam_relabelled(cam_extracted), order)
    /\ pc' = "cam_wide"
    /\ UNCHANGED <<braden, braden_w, cam_extracted>>
    /\ UNCHANGED notPaVars

InitAssess ==
    /\ pc \in {"braden", "cam_extracted"}
    /\ IdleResp
    /\ IdleMac
    /\ IdlePa
    /\ IdleMap
    /\ IdleDriver
    /\ IdleDag
    /\ IdlePat
    /\ IdleFind
    /\ IdleClean
    /\ IdleCam
    /\ IdlePipe

NextAssess ==
    \/ FetchBraden
    \/ BradenPivoted
    \/ FetchCam
    \/ CamWide

SpecAssess == InitAssess /\ [][NextAssess]_vars

\* C13: the pivots of the Braden and of the CAM-ICU events raise when two
\* events share (hadm_id, time, label): no wide table is made of such events.
C13_AssessmentPivotRaisesOnDuplicates ==
    /\ pc = "braden_w" => DuplicatedCells(braden) = {}
    /\ pc = "cam_wide" => DuplicatedCells(cam_relabelled(cam_extracted)) = {}


(***************************************************************************)
(* construct_mapper_dict (src/src/utils.py, lines 237-270).                *)
(*                                                                         *)
(* The mapping table has the columns itemid, key (key_col), value          *)
(* (value_col) and decision.  A dict is a function of its keys; the key    *)
(* None is Null and the key "None" is the string.                          *)
(***************************************************************************)
MappingColumns == {"itemid", "key", "value", "decision"}

\* Line 243: the default of excluded_labels.
excluded_labels ==
    {"NO MAPPING", "UNSURE", "MAPPED ELSEWHERE", "ALREADY MAPPED", "NOT AVAILABLE"}

\* The cells of the mapping tables of the model.
MappingItems == {223848, ItemDevice}
MappingKeys == {"Endotracheal tube", "None"}
MappingValues == {"IMV", "NO MAPPING"}
MappingDecisions == {"MAPPED", "UNSURE"}

\* The arguments of the calls of the model: decision_col names the default
\* column, the value column (as resp_device_mapper does, line 100) or a column
\* the table does not have.
MapperArgs ==
    [map_none_to_none : BOOLEAN,
     excluded_item_ids : {{}, {223848}},
     decision_col : {"decision", "value", "variable"}]

\* Lines 252-256: the rows that pass the two filters.
MappingRowKept(r, args) ==
    /\ r.itemid \notin args.excluded_item_ids
    /\ args.decision_col \in MappingColumns => r[args.decision_col] \notin excluded_labels

\* Line 258: dict(zip(keys, values)), where a later row replaces an earlier one
\* of the same key.
ZippedDict(df) ==
    [k \in {df[i].key : i \in DOMAIN df} |->
        df[CHOOSE i \in DOMAIN df :
              /\ df[i].key = k
              /\ \A j \in DOMAIN df : df[j].key = k => j <= i].value]

\* Lines 266-268.
WithNoneToNone(d) ==
    [k \in DOMAIN d \cup {Null, "None"} |-> IF k \in {Null, "None"} THEN Null ELSE d[k]]

\* The keys of value "NO MAPPING" are deleted and not set to None.
construct_mapper_dict_omitting(df, args) ==
    LET kept == SelectSeq(df, LAMBDA r : MappingRowKept(r, args))
        d0 == ZippedDict(kept)
        d1 == [k \in {x \in DOMAIN d0 : d0[x] # "NO MAPPING"} |-> d0[k]]
    IN  IF args.map_none_to_none THEN WithNoneToNone(d1) ELSE d1

\* Lines 237-270.
construct_mapper_dict(df, args) ==
    LET kept == SelectSeq(df, LAMBDA r : MappingRowKept(r, args))
        d0 == ZippedDict(kept)
        d1 == [k \in DOMAIN d0 |-> IF d0[k] = "NO MAPPING" THEN Null ELSE d0[k]]
    IN  IF args.map_none_to_none THEN WithNoneToNone(d1) ELSE d1

\* load_mapping_csv: one more row of the mapping table.
LoadMappingRow ==
    /\ pc = "mapping_df"
    /\ Len(mapping_df) < MaxMappingRows
    /\ \E item \in MappingItems, k \in MappingKeys, v \in MappingValues,
          d \in MappingDecisions :
          mapping_df' = Append(mapping_df,
             [itemid |-> item, key |-> k, value |-> v, decision |-> d])
    /\ UNCHANGED <<pc, mapper_args, mapper_dict>>
    /\ UNCHANGED notMapVars

ConstructMapperDict ==
    /\ pc = "mapping_df"
    /\ mapper_dict' = construct_mapper_dict(mapping_df, mapper_args)
    /\ pc' = "mapper_dict"
    /\ UNCHANGED <<mapping_df, mapper_args>>
    /\ UNCHANGED notMapVars

InitMapper ==
    /\ pc = "mapping_df"
    /\ mapping_df = <<>>
    /\ mapper_args \in MapperArgs
    /\ mapper_dict = <<>>
    /\ IdleResp
    /\ IdleMac
    /\ IdlePa
    /\ IdleDriver
    /\ IdleDag
    /\ IdlePat
    /\ IdleFind
    /\ IdleClean
    /\ IdleCam
    /\ IdlePipe

NextMapper == LoadMappingRow \/ ConstructMapperDict

SpecMapper == InitMapper /\ [][NextMapper]_vars

\* C16: a key is in the returned dict only if its row's decision is not
\* excluded and its value is not "NO MAPPING": every key of a row with an
\* excluded decision or the value "NO MAPPING" is omitted, and every other row
\* is present with its value.
C16_ExcludedAndNoMappingKeysOmitted ==
    pc = "mapper_dict" =>
       \A i \in DOMAIN mapping_df :
          LET r == mapping_df[i]
          IN  IF r.decision \in excluded_labels \/ r.value = "NO MAPPING"
              THEN r.key \notin DOMAIN mapper_dict
              ELSE r.key \in DOMAIN mapper_dict /\ mapper_dict[r.key] = r.value

\* The rows of the mapping table that pass the filters of the call.
KeptRows == {i \in DOMAIN mapping_df : MappingRowKept(mapping_df[i], mapper_args)}

NoneKey(k) == mapper_args.map_none_to_none /\ k \in {Null, "None"}

\* C16, amended: a key is in the returned dict exactly when a row of that key
\* passes the filters (its itemid and its decision are not excluded), or when
\* it is None or "None" under map_none_to_none; the key of a kept row whose
\* value is "NO MAPPING" stays in the dict, with the value None; every other
\* key has the value of its last kept row, and None and "None" have None.
C16_NoMappingKeysMapToNone ==
    pc = "mapper_dict" =>
       /\ \A k \in MappingKeys \cup {Null} :
             k \in DOMAIN mapper_dict <=>
                (NoneKey(k) \/ \E i \in KeptRows : mapping_df[i].key = k)
       /\ \A k \in DOMAIN mapper_dict :
             IF NoneKey(k) THEN mapper_dict[k] = Null
             ELSE \E i \in KeptRows :
                     /\ mapping_df[i].key = k
                     /\ \A j \in KeptRows : mapping_df[j].key = k => j <= i
                     /\ mapper_dict[k] =
                           IF mapping_df[i].value = "NO MAPPING" THEN Null
                           ELSE mapping_df[i].value

\* A kept row of value "NO MAPPING" whose key is in the dict with None, next
\* to a row of an excluded decision whose key is not in the dict.
C16_Witness ==
    /\ pc = "mapper_dict"
    /\ \E i \in KeptRows :
          /\ mapping_df[i].value = "NO MAPPING"
          /\ mapping_df[i].key \in DOMAIN mapper_dict
          /\ mapper_dict[mapping_df[i].key] = Null
    /\ \E i \in DOMAIN mapping_df :
          /\ mapping_df[i].decision \in excluded_labels
          /\ mapping_df[i].key \notin DOMAIN mapper_dict


(***************************************************************************)
(* The top-level driver (src/main.py).                                     *)
(*                                                                         *)
(* pc is "main" on entry, "loop" at the head of the for loop (line 24),    *)
(* "try" while the builder of attempts[Len(attempts)] runs (line 28),      *)
(* "finished" after line 33 and "crashed" when an exception leaves main(). *)
(***************************************************************************)
\* Line 13: the tables of the configuration whose value is 1, in its order.
CLIF_TABLES_TO_BUILD == SelectSeq(ConfiguredTables, LAMBDA t : config.clif_tables[t] = 1)

\* The modules of src/tables that define main(); the others define _main() or,
\* as hospitalization does, no entry point at all.
HasMain(t) == t \in {"patient", "medication_admin_continuous", "position"}

\* The handler re-raises: the exception of a builder leaves main().
ExceptNextReraised == "crashed"

\* Lines 29-32: the handler logs, and the loop goes on with the next table.
ExceptNext == "loop"

\* Lines 17-21, with the parquet files asked for: resave them, where DuckDB
\* raises on a file it cannot read or write, and nothing catches it.
ResaveMimicTables ==
    /\ pc = "main"
    /\ config.create_mimic_parquet_from_csv = 1
    /\ \E raised \in BOOLEAN :
          pc' = IF raised THEN "crashed" ELSE "loop"
    /\ counter' = 1
    /\ UNCHANGED <<config, attempts, outcomes, result>>
    /\ UNCHANGED notDrvVars

\* Lines 17 and 22-23, with no parquet files asked for.
EnterLoop ==
    /\ pc = "main"
    /\ config.create_mimic_parquet_from_csv # 1
    /\ pc' = "loop"
    /\ counter' = 1
    /\ UNCHANGED <<config, attempts, outcomes, result>>
    /\ UNCHANGED notDrvVars

\* Lines 24-27: the next table of the list, its module, and into the try block.
NextTable ==
    /\ pc = "loop"
    /\ Len(attempts) < Len(CLIF_TABLES_TO_BUILD)
    /\ attempts' = Append(attempts, CLIF_TABLES_TO_BUILD[Len(attempts) + 1])
    /\ pc' = "try"
    /\ UNCHANGED <<config, counter, outcomes, result>>
    /\ UNCHANGED notDrvVars

\* Line 28 returns: the builder has written its file.  Lines 31-32.
BuilderReturns ==
    /\ pc = "try"
    /\ HasMain(attempts[Len(attempts)])
    /\ outcomes' = Append(outcomes, "built")
    /\ counter' = counter + 1
    /\ pc' = "loop"
    /\ UNCHANGED <<config, attempts, result>>
    /\ UNCHANGED notDrvVars

\* Line 28 raises: the builder's own exception, or the AttributeError of a
\* module without main(), which the builder does not run for.  Lines 29-32.
BuilderRaises ==
    /\ pc = "try"
    /\ outcomes' = Append(outcomes,
          IF HasMain(attempts[Len(attempts)]) THEN "raised" ELSE "AttributeError")
    /\ counter' = counter + 1
    /\ pc' = ExceptNext
    /\ UNCHANGED <<config, attempts, result>>
    /\ UNCHANGED notDrvVars

\* Line 33 and the return of main(): the last log line, no return value, and
\* the exit status of an interpreter that ends without an exception.
Finished ==
    /\ pc = "loop"
    /\ Len(attempts) = Len(CLIF_TABLES_TO_BUILD)
    /\ result' = [logged |-> "finished building all clif tables!",
                  returned |-> Null, exit_status |-> 0]
    /\ pc' = "finished"
    /\ UNCHANGED <<config, counter, attempts, outcomes>>
    /\ UNCHANGED notDrvVars

InitDriver ==
    /\ pc = "main"
    /\ config \in [clif_tables : [TableNames -> {0, 1}],
                   create_mimic_parquet_from_csv : {0, 1}]
    /\ counter = 1
    /\ attempts = <<>>
    /\ outcomes = <<>>
    /\ result = <<>>
    /\ IdleResp
    /\ IdleMac
    /\ IdlePa
    /\ IdleMap
    /\ IdleDag
    /\ IdlePat
    /\ IdleFind
    /\ IdleClean
    /\ IdleCam
    /\ IdlePipe

NextDriver ==
    \/ ResaveMimicTables
    \/ EnterLoop
    \/ NextTable
    \/ BuilderReturns
    \/ BuilderRaises
    \/ Finished

SpecDriver == InitDriver /\ [][NextDriver]_vars

\* The interpreter goes on to the next statement of main(), and a builder that
\* was called returns or raises.
FairSpecDriver == SpecDriver /\ WF_vars(NextDriver)

\* The attempts so far are the first tables of the list, each once and in the
\* list's order, and each attempt but a running one has ended before the next.
AttemptsInOrder ==
    /\ Len(attempts) <= Len(CLIF_TABLES_TO_BUILD)
    /\ \A i \in DOMAIN attempts : attempts[i] = CLIF_TABLES_TO_BUILD[i]
    /\ Len(outcomes) = IF pc = "try" THEN Len(attempts) - 1 ELSE Len(attempts)
    /\ counter = Len(outcomes) + 1

\* C17: every requested table's builder is attempted once, in configured
\* order, after the builder before it has ended; an exception of a builder is
\* logged and leaves main() running, so that the loop, once entered, attempts
\* every table and reaches the final "finished" step.
C17_EveryTableAttemptedInOrder ==
    /\ []AttemptsInOrder
    /\ [](pc = "finished" => attempts = CLIF_TABLES_TO_BUILD)
    /\ [](pc = "crashed" => attempts = <<>>)
    /\ (pc = "loop" ~> pc = "finished")

\* The first of three requested tables raised, and the other two were
\* attempted after it, before the end.
C17_Witness ==
    /\ pc = "finished"
    /\ Len(attempts) = 3
    /\ outcomes[1] = "raised"
    /\ outcomes[3] = "built"


\* C18: every table enabled in the configuration has its builder run by the
\* driver: the builder completed, with its file written, or raised, and no
\* enabled table is passed over without its builder having run.
C18_EveryEnabledBuilderRuns ==
    pc = "finished" =>
       \A t \in TableNames :
          config.clif_tables[t] = 1 =>
             \E i \in DOMAIN attempts :
                /\ attempts[i] = t
                /\ outcomes[i] \in {"built", "raised"}

\* What main() leaves to its caller after a run in which every builder returned.
AllSucceeded ==
    [logged |-> "finished building all clif tables!", returned |-> Null, exit_status |-> 0]

\* C19: the terminal result of main() is the one of a run in which all tables
\* were built only if no builder raised; a run with failed builders ends
\* normally, with another result.
C19_ResultTellsFailureFromSuccess ==
    pc = "finished" =>
       (result = AllSucceeded <=> \A i \in DOMAIN outcomes : outcomes[i] = "built")


(***************************************************************************)
(* The respiratory-support builder as a Hamilton dataflow                  *)
(* (src/src/tables/respiratory_support.py, lines 80-406).                  *)
(*                                                                         *)
(* Every function of the module whose name has no leading underscore is a  *)
(* node, and its parameters are the nodes it depends on.  dr.execute runs  *)
(* the requested nodes and the nodes upstream of them, each after the      *)
(* nodes it depends on, and no other node.  pc is "execute" while          *)
(* dr.execute runs, "complete" when it has returned and "error" when a     *)
(* node has raised.                                                        *)
(***************************************************************************)
Nodes ==
    {"resp_mapping", "resp_mapper", "resp_device_mapper", "resp_mode_mapper",
     "mimic_item_ids", "extracted_mimic_events", "extracted_mimic_events_translated",
     "none_value_rows_removed", "fio2_set_cleaned", "duplicates_removed",
     "pivoted_wider_and_coalesced", "renamed_reordered_recasted",
     "tracheostomy_imputed", "schema_tested", "no_nulls_tested", "save"}

\* The parameters of the node functions.
Deps(n) ==
    CASE n = "resp_mapper" -> {"resp_mapping"}
      [] n = "mimic_item_ids" -> {"resp_mapping"}
      [] n = "extracted_mimic_events" -> {"mimic_item_ids"}
      [] n = "extracted_mimic_events_translated" -> {"extracted_mimic_events", "resp_mapper"}
      [] n = "none_value_rows_removed" -> {"extracted_mimic_events_translated"}
      [] n = "fio2_set_cleaned" -> {"none_value_rows_removed"}
      [] n = "duplicates_removed" -> {"fio2_set_cleaned", "resp_mapper", "resp_device_mapper"}
      [] n = "pivoted_wider_and_coalesced" ->
            {"duplicates_removed", "resp_mapper", "resp_device_mapper", "resp_mode_mapper"}
      [] n = "renamed_reordered_recasted" -> {"pivoted_wider_and_coalesced"}
      [] n = "tracheostomy_imputed" -> {"renamed_reordered_recasted"}
      [] n = "schema_tested" -> {"tracheostomy_imputed"}
      [] n = "no_nulls_tested" -> {"tracheostomy_imputed"}
      [] n = "save" -> {"tracheostomy_imputed"}
      [] OTHER -> {}

\* Line 406: dr.execute(["save"]).
final_vars == {"save"}

\* The nodes dr.execute needs: the requested ones and all that is upstream.
RECURSIVE Upstream(_)
Upstream(S) ==
    LET T == S \cup UNION {Deps(n) : n \in S}
    IN  IF T = S THEN S ELSE Upstream(T)

\* What a node returns.  schema_tested (lines 367-379) returns True, or the
\* SchemaErrors it caught; the other nodes return their table or dict.
NodeResult(n) ==
    IF n = "schema_tested"
    THEN IF schema_ok THEN "True" ELSE "SchemaErrors"
    ELSE "returned"

\* schema_tested catches the SchemaErrors of validate and raises nothing.
CanRaise(n) == n # "schema_tested"

Ready(n) ==
    /\ n \in Upstream(final_vars)
    /\ n \notin DOMAIN executed
    /\ Deps(n) \subseteq DOMAIN executed

ExecuteNode ==
    /\ pc = "execute"
    /\ \E n \in Nodes :
          /\ Ready(n)
          /\ executed' = executed @@ (n :> NodeResult(n))
    /\ UNCHANGED <<pc, schema_ok>>
    /\ UNCHANGED notDagVars

\* The exception of a node leaves dr.execute and _main.
NodeRaises ==
    /\ pc = "execute"
    /\ \E n \in Nodes : Ready(n) /\ CanRaise(n)
    /\ pc' = "error"
    /\ UNCHANGED <<executed, schema_ok>>
    /\ UNCHANGED notDagVars

\* dr.execute returns once the requested nodes have run.
ExecuteReturns ==
    /\ pc = "execute"
    /\ final_vars \subseteq DOMAIN executed
    /\ pc' = "complete"
    /\ UNCHANGED <<executed, schema_ok>>
    /\ UNCHANGED notDagVars

InitDag ==
    /\ pc = "execute"
    /\ executed = <<>>
    /\ schema_ok \in BOOLEAN
    /\ IdleResp
    /\ IdleMac
    /\ IdlePa
    /\ IdleMap
    /\ IdleDriver
    /\ IdlePat
    /\ IdleFind
    /\ IdleClean
    /\ IdleCam
    /\ IdlePipe

NextDag == ExecuteNode \/ NodeRaises \/ ExecuteReturns

SpecDag == InitDag /\ [][NextDag]_vars

\* C20: the builder is complete, with its table saved, only after
\* schema_tested has run on the table, and never with a table that violates
\* CLIF_RESP_SCHEMA.
C20_CompleteOnlyWhenSchemaTested ==
    (pc = "complete" /\ "save" \in DOMAIN executed) =>
       /\ "schema_tested" \in DOMAIN executed
       /\ schema_ok


(***************************************************************************)
(* The patient builder (src/src/tables/patient.py, main).                  *)
(*                                                                         *)
(* admittime is a number; deathtime is a numeric cell, <<t>> or NaN.  The  *)
(* tables that main() merges are sequences of rows; the result of an outer *)
(* merge has its keys in ascending order and, for one key, the rows of the *)
(* left table crossed with the rows of the right table.                    *)
(***************************************************************************)
Subjects == {1, 2}
AdmitTimes == {1, 2}
Races == {"White", "Black", "Unknown"}

\* Lines 34-36: the race and ethnicity mappers of the model.
race_mapper_dict ==
    [r \in Races |->
        CASE r = "White" -> "Caucasian"
          [] r = "Black" -> "African American"
          [] OTHER -> "Unknown"]

ethnicity_mapper_dict ==
    [r \in Races |-> IF r = "Unknown" THEN "Unknown" ELSE "Non-Hispanic"]

\* Lines 70-73.
true_noninfo(race) ==
    IF /\ race_mapper_dict[race] \in {"Other", "Unknown"}
       /\ ethnicity_mapper_dict[race] \in {"Other", "Unknown"}
    THEN 1 ELSE 0

\* Lines 79-98: the groups of a patient, one per recorded race (the names and
\* the categories of a group are functions of the race), with COUNT(*) and
\* MAX(admittime).
AdmissionsOf(adm, p, race) ==
    {i \in DOMAIN adm : adm[i].subject_id = p /\ adm[i].race = race}

RacesOf(adm, p) == {adm[i].race : i \in {j \in DOMAIN adm : adm[j].subject_id = p}}

count(adm, p, race) == Cardinality(AdmissionsOf(adm, p, race))

most_recent(adm, p, race) ==
    LET S == {adm[i].admittime : i \in AdmissionsOf(adm, p, race)}
    IN  CHOOSE t \in S : \A u \in S : u <= t

\* ORDER BY count DESC, most_recent DESC: the order without true_noninfo.
RankedBeforeByCountAndRecency(adm, p, a, b) ==
    \/ count(adm, p, a) > count(adm, p, b)
    \/ /\ count(adm, p, a) = count(adm, p, b)
       /\ most_recent(adm, p, a) > most_recent(adm, p, b)

\* Lines 91-94: ORDER BY count DESC, true_noninfo, most_recent DESC.
RankedBefore(adm, p, a, b) ==
    \/ count(adm, p, a) > count(adm, p, b)
    \/ /\ count(adm, p, a) = count(adm, p, b)
       /\ true_noninfo(a) < true_noninfo(b)
    \/ /\ count(adm, p, a) = count(adm, p, b)
       /\ true_noninfo(a) = true_noninfo(b)
       /\ most_recent(adm, p, a) > most_recent(adm, p, b)

\* The groups ROW_NUMBER can number 1: those no other group is ranked before.
\* Among groups equal in the three keys the numbering is the engine's choice.
FirstRanked(adm, p) ==
    {a \in RacesOf(adm, p) : \A b \in RacesOf(adm, p) : ~RankedBefore(adm, p, b, a)}

RECURSIVE SortInts(_)
SortInts(S) ==
    IF S = {} THEN <<>>
    ELSE LET m == CHOOSE x \in S : \A y \in S : x <= y
         IN  <<m>> \o SortInts(S \ {m})

\* Lines 102-112: race_ethn_c, the rows with rn = 1, for the choice rn1 of a
\* first-ranked group per patient.
race_ethn_c(adm, rn1) ==
    LET ps == SortInts(DOMAIN rn1)
    IN  [n \in DOMAIN ps |->
            [patient_id |-> ps[n],
             race_name |-> rn1[ps[n]],
             race_category |-> race_mapper_dict[rn1[ps[n]]],
             ethnicity_name |-> rn1[ps[n]],
             ethnicity_category |-> ethnicity_mapper_dict[rn1[ps[n]]]]]

\* Lines 44-46.
sex(patients) ==
    [n \in DOMAIN patients |->
        [patient_id |-> patients[n].subject_id,
         sex_name |-> patients[n].gender,
         sex_category |-> IF patients[n].gender = "F" THEN "Female" ELSE "Male"]]

\* Lines 152-153: dropna(subset = ["deathtime"]).drop_duplicates().
death(adm) ==
    LET d == SelectSeq(adm, LAMBDA r : r.deathtime # NaN)
        first == {i \in DOMAIN d :
                    \A j \in DOMAIN d :
                       (d[j].subject_id = d[i].subject_id /\ d[j].deathtime = d[i].deathtime)
                          => i <= j}
        kept == Rows(d, first)
    IN  [n \in DOMAIN kept |->
            [patient_id |-> kept[n].subject_id, death_dttm |-> kept[n].deathtime]]

\* pd.merge(left, right, on = "patient_id", how = "outer"): a side without a
\* row of the key gives the missing cells naL or naR.
MergedRowsOf(left, right, naL, naR, k) ==
    LET l0 == SelectSeq(left, LAMBDA r : r.patient_id = k)
        r0 == SelectSeq(right, LAMBDA r : r.patient_id = k)
        ls == IF l0 = <<>> THEN <<naL>> ELSE l0
        rs == IF r0 = <<>> THEN <<naR>> ELSE r0
    IN  [n \in 1..(Len(ls) * Len(rs)) |->
            [patient_id |-> k] @@ ls[((n - 1) \div Len(rs)) + 1] @@ rs[((n - 1) % Len(rs)) + 1]]

RECURSIVE MergedRows(_, _, _, _, _)
MergedRows(left, right, naL, naR, keys) ==
    IF keys = <<>> THEN <<>>
    ELSE MergedRowsOf(left, right, naL, naR, Head(keys))
            \o MergedRows(left, right, naL, naR, Tail(keys))

OuterMerge(left, right, naL, naR) ==
    MergedRows(left, right, naL, naR,
        SortInts({left[i].patient_id : i \in DOMAIN left}
                    \cup {right[i].patient_id : i \in DOMAIN right}))

\* Lines 162-168: the two merges, and patient_id cast to a string.
patient_merged(adm, patients, rn1) ==
    LET m1 == OuterMerge(race_ethn_c(adm, rn1), sex(patients),
                 [race_name |-> Null, race_category |-> Null,
                  ethnicity_name |-> Null, ethnicity_category |-> Null],
                 [sex_name |-> Null, sex_category |-> Null])
        m2 == OuterMerge(m1, death(adm),
                 [race_name |-> Null, race_category |-> Null,
                  ethnicity_name |-> Null, ethnicity_category |-> Null,
                  sex_name |-> Null, sex_category |-> Null],
                 [death_dttm |-> NaN])
    IN  [n \in DOMAIN m2 |-> [m2[n] EXCEPT !.patient_id = ToString(m2[n].patient_id)]]

\* Line 39: one more row of the patients table, in the order of subject_id.
FetchPatient ==
    /\ pc = "mimic_patients"
    /\ Len(mimic_patients) < MaxPatientRows
    /\ \E p \in Subjects :
          /\ mimic_patients # <<>> => mimic_patients[Len(mimic_patients)].subject_id <= p
          /\ mimic_patients' = Append(mimic_patients,
                [subject_id |-> p, gender |-> IF p = 1 THEN "F" ELSE "M"])
    /\ UNCHANGED <<pc, mimic_admissions, patient_final>>
    /\ UNCHANGED notPatVars

\* Line 40: the patients table is read, and the admissions table after it.
PatientsFetched ==
    /\ pc = "mimic_patients"
    /\ pc' = "mimic_admissions"
    /\ UNCHANGED <<mimic_patients, mimic_admissions, patient_final>>
    /\ UNCHANGED notPatVars

\* The place of an admission in the order in which the table is read: by
\* subject_id, then admittime, then race and death.  The queries and merges of
\* main() go by value, so the order of the rows is one order of many.
AdmissionOrder(r) ==
    (((r.subject_id * 2) + r.admittime) * 3
        + (CASE r.race = "White" -> 0 [] r.race = "Black" -> 1 [] OTHER -> 2)) * 2
        + (IF r.deathtime = NaN THEN 0 ELSE 1)

\* Line 40: one more row of the admissions table; the death of an admission
\* is recorded at the time of the admission.
FetchAdmission ==
    /\ pc = "mimic_admissions"
    /\ Len(mimic_admissions) < MaxAdmissions
    /\ \E p \in Subjects, r \in Races, t \in AdmitTimes, died \in BOOLEAN :
          /\ mimic_admissions # <<>> =>
                AdmissionOrder(mimic_admissions[Len(mimic_admissions)]) <=
                   AdmissionOrder([subject_id |-> p, race |-> r, admittime |-> t,
                                   deathtime |-> IF died THEN <<t>> ELSE NaN])
          /\ mimic_admissions' = Append(mimic_admissions,
                [subject_id |-> p, hadm_id |-> Len(mimic_admissions) + 1, race |-> r,
                 admittime |-> t, deathtime |-> IF died THEN <<t>> ELSE NaN])
    /\ UNCHANGED <<pc, mimic_patients, patient_final>>
    /\ UNCHANGED notPatVars

\* Lines 42-174 of main().
PatientMain ==
    /\ pc = "mimic_admissions"
    /\ LET ps == {mimic_admissions[i].subject_id : i \in DOMAIN mimic_admissions}
       IN  \E rn1 \in [ps -> Races] :
              /\ \A p \in ps : rn1[p] \in FirstRanked(mimic_admissions, p)
              /\ patient_final' = patient_merged(mimic_admissions, mimic_patients, rn1)
    /\ pc' = "patient_final"
    /\ UNCHANGED <<mimic_patients, mimic_admissions>>
    /\ UNCHANGED notPatVars

InitPatient ==
    /\ pc = "mimic_patients"
    /\ IdlePat
    /\ IdleResp
    /\ IdleMac
    /\ IdlePa
    /\ IdleMap
    /\ IdleDriver
    /\ IdleDag
    /\ IdleFind
    /\ IdleClean
    /\ IdleCam
    /\ IdlePipe

NextPatient ==
    \/ FetchPatient
    \/ PatientsFetched
    \/ FetchAdmission
    \/ PatientMain

SpecPatient == InitPatient /\ [][NextPatient]_vars

\* The patients of the input tables, as patient.main writes them.
PatientIds ==
    {ToString(mimic_patients[i].subject_id) : i \in DOMAIN mimic_patients}
       \cup {ToString(mimic_admissions[i].subject_id) : i \in DOMAIN mimic_admissions}

\* C21: the saved patient table has exactly one row per patient_id, whatever
\* the admissions and the patients tables are.
C21_OneRowPerPatient ==
    pc = "patient_final" =>
       \A id \in PatientIds :
          Cardinality({n \in DOMAIN patient_final : patient_final[n].patient_id = id}) = 1

\* C22: the race written for a patient is the one of most admissions; among
\* races of equal count one that is not non-informative is preferred, and
\* among those still tied the one with the latest admission.
C22_MostFrequentRaceWins ==
    pc = "patient_final" =>
       \A n \in DOMAIN patient_final :
          \A p \in Subjects :
             (patient_final[n].patient_id = ToString(p) /\ RacesOf(mimic_admissions, p) # {}) =>
                LET w == patient_final[n].race_name
                    N(r) == Cardinality({i \in DOMAIN mimic_admissions :
                               /\ mimic_admissions[i].subject_id = p
                               /\ mimic_admissions[i].race = r})
                    NonInfo(r) == /\ race_mapper_dict[r] \in {"Other", "Unknown"}
                                  /\ ethnicity_mapper_dict[r] \in {"Other", "Unknown"}
                    Latest(r) == CHOOSE t \in AdmitTimes :
                                    /\ \E i \in DOMAIN mimic_admissions :
                                          /\ mimic_admissions[i].subject_id = p
                                          /\ mimic_admissions[i].race = r
                                          /\ mimic_admissions[i].admittime = t
                                    /\ \A i \in DOMAIN mimic_admissions :
                                          (mimic_admissions[i].subject_id = p
                                             /\ mimic_admissions[i].race = r)
                                          => mimic_admissions[i].admittime <= t
                IN  /\ w \in RacesOf(mimic_admissions, p)
                    /\ patient_final[n].race_category = race_mapper_dict[w]
                    /\ patient_final[n].ethnicity_category = ethnicity_mapper_dict[w]
                    /\ \A r \in RacesOf(mimic_admissions, p) \ {w} :
                          /\ N(w) >= N(r)
                          /\ N(w) = N(r) => (NonInfo(w) => NonInfo(r))
                          /\ (N(w) = N(r) /\ (NonInfo(w) <=> NonInfo(r))) =>
                                Latest(w) >= Latest(r)

\* A patient with one admission of an informative race and a later one of a
\* non-informative race, and the informative race written.
C22_Witness ==
    /\ pc = "patient_final"
    /\ \E p \in Subjects :
          /\ \E i, j \in DOMAIN mimic_admissions :
                /\ mimic_admissions[i].subject_id = p
                /\ mimic_admissions[j].subject_id = p
                /\ mimic_admissions[i].race = "White"
                /\ mimic_admissions[j].race = "Unknown"
                /\ mimic_admissions[j].admittime > mimic_admissions[i].admittime
          /\ Cardinality({i \in DOMAIN mimic_admissions : mimic_admissions[i].subject_id = p}) = 2
          /\ \E n \in DOMAIN patient_final :
                /\ patient_final[n].patient_id = ToString(p)
                /\ patient_final[n].race_category = "Caucasian"


(***************************************************************************)
(* find_duplicates (src/src/utils.py, lines 339-347), called on the long   *)
(* event table with the default columns or with a shorter key.             *)
(***************************************************************************)
DuplicateCols == {<<"hadm_id", "time", "itemid">>, <<"hadm_id", "itemid">>, <<"itemid">>}

FindDuplicates ==
    /\ pc = "fio2_set_cleaned"
    /\ duplicates' = find_duplicates_on(resp_events, cols)
    /\ pc' = "find_duplicates"
    /\ UNCHANGED cols
    /\ UNCHANGED notFindVars

InitFind ==
    /\ pc = "fio2_set_cleaned"
    /\ cols \in DuplicateCols
    /\ duplicates = <<>>
    /\ IdleResp
    /\ IdleMac
    /\ IdlePa
    /\ IdleMap
    /\ IdleDriver
    /\ IdleDag
    /\ IdlePat
    /\ IdleClean
    /\ IdleCam
    /\ IdlePipe

NextFind == FetchEvent \/ FindDuplicates

SpecFind == InitFind /\ [][NextFind]_vars

\* The rows of resp_events that share their key over cols with another row.
SharesKey(i) ==
    \E j \in DOMAIN resp_events :
       /\ j # i
       /\ \A c \in DOMAIN cols : resp_events[j][cols[c]] = resp_events[i][cols[c]]

\* C23: find_duplicates returns exactly the rows whose key over cols is shared
\* with another row, in frame order: each returned row has a partner, no row
\* of a unique key is returned, every member of a duplicated key is, and the
\* frame given is left as it was.
C23_ExactlyTheRowsSharingAKey ==
    /\ [](pc = "find_duplicates" =>
            /\ duplicates = Rows(resp_events, {i \in DOMAIN resp_events : SharesKey(i)})
            /\ \A i \in DOMAIN resp_events :
                  SharesKey(i) <=>
                     \E n \in DOMAIN duplicates : duplicates[n] = resp_events[i])
    /\ [][pc' = "find_duplicates" => resp_events' = resp_events]_vars

\* Three rows, two of one key and one of a key of its own: the two are
\* returned and the third is not.
C23_Witness ==
    /\ pc = "find_duplicates"
    /\ Len(resp_events) = 3
    /\ Len(duplicates) = 2
    /\ \E i \in DOMAIN resp_events : ~SharesKey(i)


\* The rows of a device group whose category has the lowest rank of the group.
LowestRanked(G) ==
    {i \in G : \A j \in G :
        RankIndex(resp_device_mapper[resp_events[i].value])
           <= RankIndex(resp_device_mapper[resp_events[j].value])}

\* C24: when several device rows of a duplicate group have categories of the
\* same, lowest rank, duplicates_removed keeps exactly one of them, the one
\* that comes first in the input.
C24_FirstOfEqualRankKept ==
    pc = "duplicates_removed" =>
        \A h \in Hadms, t \in EventTimes :
            LET G == DeviceGroup(resp_events, h, t)
                L == IF Cardinality(G) >= 2 THEN LowestRanked(G) ELSE G
                S == DeviceGroup(resp_events_clean, h, t)
            IN  Cardinality(L) >= 2 =>
                   /\ Cardinality(S) = 1
                   /\ \A n \in S :
                         LET first == CHOOSE i \in L : \A j \in L : i <= j
                         IN  /\ resp_events_clean[n].index = resp_events[first].index
                             /\ resp_events_clean[n].value = resp_events[first].value
                             /\ resp_events_clean[n].stay_id = resp_events[first].stay_id

\* A tracheostomy tube read before an endotracheal tube read of the same
\* (hadm_id, time), both of category IMV, and the tracheostomy tube read left.
C24_Witness ==
    /\ pc = "duplicates_removed"
    /\ \E i, j \in DOMAIN resp_events :
          /\ i < j
          /\ EventKey(resp_events[i]) = EventKey(resp_events[j])
          /\ resp_events[i].value = "Tracheostomy tube"
          /\ resp_events[j].value = "Endotracheal tube"
          /\ \A n \in DOMAIN resp_events_clean :
                EventKey(resp_events_clean[n]) = EventKey(resp_events[i]) =>
                   resp_events_clean[n].value = "Tracheostomy tube"
          /\ \E n \in DOMAIN resp_events_clean :
                EventKey(resp_events_clean[n]) = EventKey(resp_events[i])


(***************************************************************************)
(* The "continue after" relabelling of the medication builder.             *)
(***************************************************************************)
\* The readings of the orders, two per order, in the order of line 96.
Readings == mac_l(DropDuplicateOrders(mac_events_s))

\* Reading n is at the time of the reading before it, of the same
\* (hadm_id, itemid).
ZeroDelta(n) ==
    /\ n > 1
    /\ Readings[n - 1].hadm_id = Readings[n].hadm_id
    /\ Readings[n - 1].itemid = Readings[n].itemid
    /\ Readings[n - 1].recorded_dttm = Readings[n].recorded_dttm

\* The status of reading n before any relabelling.
StatusToken(n) ==
    IF Readings[n].time = "starttime" THEN "start" ELSE Readings[n].statusdescription

\* The labels under which reading n is a row of mac_ldf: none when deleted.
KeptAs(n) ==
    {mac_ldf[i].mar_action_name :
        i \in {j \in DOMAIN mac_ldf : mac_ldf[j].index = Readings[n].index}}

\* Reading n carries a dose: a start reading.
CarriesDose(n) == Readings[n].time = "starttime"

Str(s) == [kind |-> "str", str |-> s, num |-> 0]
Float(x) == [kind |-> "float", str |-> "", num |-> x]
nan == [kind |-> "nan", str |-> "", num |-> 0]

Item223835 == 223835

\* The decimal strings charted for the FiO2 item.
NumericStrings == {"0", "0.2", "0.21", "1", "1.5", "19", "20", "50", "100", "101"}

\* float(): the number a decimal string denotes, in hundredths.
ParseFloat(s) ==
    CASE s = "0" -> 0
      [] s = "0.2" -> 20
      [] s = "0.21" -> 21
      [] s = "1" -> 100
      [] s = "1.5" -> 150
      [] s = "19" -> 1900
      [] s = "20" -> 2000
      [] s = "50" -> 5000
      [] s = "100" -> 10000
      [] s = "101" -> 10100

float(value) == IF value.kind = "str" THEN Float(ParseFloat(value.str)) ELSE value

\* The values charted for an item: a device name or 'None' for the device
\* item, a decimal string or 'None' for the FiO2 item.
TranslatedItems == {ItemDevice, Item223835}

TranslatedValues(item) ==
    IF item = ItemDevice THEN {"None", "Nasal cannula"} ELSE NumericStrings \cup {"None"}

\* extracted_mimic_events_translated: itemid.map(resp_mapper), the mapping
\* with the FiO2 item added to the items of resp_mapper above.
translated_variable(item) == IF item = Item223835 THEN "fio2_set" ELSE resp_mapper[item]

\* A helper that takes 0.2 for a valid fraction.
clean_fio2_set_helper_closed(value) ==
    LET v == float(value).num
    IN  IF float(value).kind = "nan" THEN nan
        ELSE IF v >= 2000 /\ v <= 10000 THEN Float(v \div 100)
        ELSE IF v > 100 /\ v < 2000 THEN nan
        ELSE IF v >= 20 /\ v <= 100 THEN Float(v)
        ELSE nan

\* _clean_fio2_set_helper, with 20, 100, 1 and 0.2 in hundredths.
clean_fio2_set_helper(value) ==
    LET v == float(value).num
    IN  IF float(value).kind = "nan" THEN nan
        ELSE IF v >= 2000 /\ v <= 10000 THEN Float(v \div 100)
        ELSE IF v > 100 /\ v < 2000 THEN nan
        ELSE IF v > 20 /\ v <= 100 THEN Float(v)
        ELSE nan

\* none_value_rows_removed: what it returns, or that it raised ValueError.
\* nunique() of no row is 0, and then the condition of line 135 is false.
none_value_rows_removed(df) ==
    LET mask == {i \in DOMAIN df : df[i].value = Str("None")}
        none_value_rows == Rows(df, mask)
        nunique == Cardinality({none_value_rows[i].itemid : i \in DOMAIN none_value_rows})
    IN  IF nunique = 1 /\ none_value_rows[1].itemid = ItemDevice
        THEN [raised |-> FALSE, rows |-> Rows(df, DOMAIN df \ mask)]
        ELSE [raised |-> TRUE, rows |-> <<>>]

\* fio2_set_cleaned: the helper on the fio2_set rows, then dropna on "value".
fio2_set_cleaned(df) ==
    LET applied == [i \in DOMAIN df |->
                       IF df[i].variable = "fio2_set"
                       THEN [df[i] EXCEPT !.value = clean_fio2_set_helper(@)]
                       ELSE df[i]]
    IN  Rows(applied, {i \in DOMAIN applied : applied[i].value # nan})

\* fetch_mimic_events and the translation: one more event, labelled by position.
FetchTranslated ==
    /\ pc = "extracted_mimic_events_translated"
    /\ Len(extracted_mimic_events_translated) < MaxTranslated
    /\ \E item \in TranslatedItems :
         \E v \in TranslatedValues(item) :
            extracted_mimic_events_translated' =
                Append(extracted_mimic_events_translated,
                       [index |-> Len(extracted_mimic_events_translated),
                        itemid |-> item,
                        variable |-> translated_variable(item),
                        value |-> Str(v)])
    /\ UNCHANGED <<pc, none_removed, fio2_cleaned>>
    /\ UNCHANGED notCleanVars

NoneValueRowsRemoved ==
    /\ pc = "extracted_mimic_events_translated"
    /\ LET r == none_value_rows_removed(extracted_mimic_events_translated)
       IN  /\ pc' = IF r.raised THEN "ValueError" ELSE "none_value_rows_removed"
           /\ none_removed' = r.rows
    /\ UNCHANGED <<extracted_mimic_events_translated, fio2_cleaned>>
    /\ UNCHANGED notCleanVars

Fio2SetCleaned ==
    /\ pc = "none_value_rows_removed"
    /\ pc' = "fio2_cleaned"
    /\ fio2_cleaned' = fio2_set_cleaned(none_removed)
    /\ UNCHANGED <<extracted_mimic_events_translated, none_removed>>
    /\ UNCHANGED notCleanVars

InitClean ==
    /\ pc = "extracted_mimic_events_translated"
    /\ IdleClean
    /\ IdleResp
    /\ IdleMac
    /\ IdlePa
    /\ IdleMap
    /\ IdleDriver
    /\ IdleDag
    /\ IdlePat
    /\ IdleFind
    /\ IdleCam
    /\ IdlePipe

NextClean == FetchTranslated \/ NoneValueRowsRemoved \/ Fio2SetCleaned

SpecClean == InitClean /\ [][NextClean]_vars

\* The rows of the input whose value is 'None', by position.
NoneRows ==
    {i \in DOMAIN extracted_mimic_events_translated :
        extracted_mimic_events_translated[i].value = Str("None")}

\* C27: none_value_rows_removed returns exactly the input rows whose value
\* is not 'None' whenever every 'None'-valued row has itemid 226732, also
\* when there is no 'None'-valued row at all; it raises ValueError only when
\* some 'None'-valued row has another itemid, and then returns no table.
C27_RaisesOnlyOnNoneOfAnotherItem ==
    LET df == extracted_mimic_events_translated
        allDevice == \A i \in NoneRows : df[i].itemid = ItemDevice
    IN  /\ pc = "ValueError" => ~allDevice /\ none_removed = <<>>
        /\ pc \in {"none_value_rows_removed", "fio2_cleaned"} =>
               /\ allDevice
               /\ none_removed = Rows(df, DOMAIN df \ NoneRows)


\* The rows of fio2_cleaned that come from row i of none_removed.
CleanedFrom(i) ==
    {j \in DOMAIN fio2_cleaned : fio2_cleaned[j].index = none_removed[i].index}

\* The charted number of row i of none_removed, in hundredths.
Charted(i) == ParseFloat(none_removed[i].value.str)

\* Row i of none_removed is a fio2_set row.
IsFio2(i) == none_removed[i].variable = "fio2_set"

\* Every row of fio2_cleaned comes from a row of none_removed, the rows that
\* are not fio2_set rows are there unchanged, and every fio2_set value of
\* fio2_cleaned is a float in [0.2, 1.0].
CleanedFrame ==
    /\ \A j \in DOMAIN fio2_cleaned : \E i \in DOMAIN none_removed : j \in CleanedFrom(i)
    /\ \A i \in DOMAIN none_removed :
           ~IsFio2(i) => \E j \in CleanedFrom(i) : fio2_cleaned[j] = none_removed[i]
    /\ \A j \in DOMAIN fio2_cleaned :
           fio2_cleaned[j].variable = "fio2_set" =>
               /\ fio2_cleaned[j].value.kind = "float"
               /\ fio2_cleaned[j].value.num >= 20
               /\ fio2_cleaned[j].value.num <= 100

\* Row i of none_removed, a fio2_set row, is in fio2_cleaned with the value x.
CleanedTo(i, x) ==
    /\ Cardinality(CleanedFrom(i)) = 1
    /\ \A j \in CleanedFrom(i) : fio2_cleaned[j] = [none_removed[i] EXCEPT !.value = Float(x)]

And3(a, b) ==
    IF a = "F" THEN "F" ELSE IF b = "F" THEN "F"
    ELSE IF a = "N" THEN "N" ELSE IF b = "N" THEN "N" ELSE "T"

Or3(a, b) ==
    IF a = "T" THEN "T" ELSE IF b = "T" THEN "T"
    ELSE IF a = "N" THEN "N" ELSE IF b = "N" THEN "N" ELSE "F"

\* The columns the query names, and the values charted in them.
CamColumns ==
    {"CAM-ICU MS Change", "CAM-ICU Inattention", "CAM-ICU Disorganized thinking",
     "CAM-ICU Altered LOC", "CAM-ICU RASS LOC"}

CamCells(c) ==
    IF c = "CAM-ICU Inattention"
    THEN {"Yes", "No", "Unable to Assess", Null}
    ELSE {"Yes", "No", Null}

\* x LIKE '%word%' on the charted values: NULL on NULL, else whether the value
\* holds the word.
Like(x, word) == IF x = Null THEN "N" ELSE IF x = word THEN "T" ELSE "F"

coalesce(a, b) == IF a # Null THEN a ELSE b

\* A loc that looks at the RASS column first.
loc_rass_first(v) == coalesce(v["CAM-ICU RASS LOC"], v["CAM-ICU Altered LOC"])

\* Line 235.
loc(v) == coalesce(v["CAM-ICU Altered LOC"], v["CAM-ICU RASS LOC"])

\* Lines 236-246: the CASE, whose branch is taken when its condition is true.
cam_total_of(v) ==
    LET positive ==
            And3(And3(Like(v["CAM-ICU MS Change"], "Yes"),
                      Like(v["CAM-ICU Inattention"], "Yes")),
                 Or3(Like(v["CAM-ICU Disorganized thinking"], "Yes"),
                     Like(loc(v), "Yes")))
        negative ==
            Or3(Or3(Like(v["CAM-ICU MS Change"], "No"),
                    Like(v["CAM-ICU Inattention"], "No")),
                And3(Like(v["CAM-ICU Disorganized thinking"], "No"),
                     Like(loc(v), "No")))
    IN  IF positive = "T" THEN "Positive"
        ELSE IF negative = "T" THEN "Negative"
        ELSE Null

\* Lines 232-248: the query, row by row.
cam_total_computed(wide) ==
    {[hadm_id |-> r.hadm_id, time |-> r.time, value |-> r.value,
      loc |-> loc(r.value), cam_total |-> cam_total_of(r.value)] : r \in wide}

\* A row of cam_wide with the five columns, of an observation time of its own.
FetchCamWide ==
    /\ pc = "cam_wide"
    /\ Cardinality(cam_wide) < MaxCamWideRows
    /\ \E v \in [CamColumns -> UNION {CamCells(c) : c \in CamColumns}] :
          /\ \A c \in CamColumns : v[c] \in CamCells(c)
          /\ cam_wide' = cam_wide \cup
                {[hadm_id |-> 1, time |-> Cardinality(cam_wide) + 1, value |-> v]}
    /\ UNCHANGED <<pc, braden, braden_w, cam_extracted>>
    /\ UNCHANGED notPaVars

CamTotalComputed ==
    /\ pc = "cam_wide"
    /\ pc' = "cam_total_computed"
    /\ cam_total' = cam_total_computed(cam_wide)
    /\ UNCHANGED notCamVars

InitCam ==
    /\ pc = "cam_wide"
    /\ IdleCam
    /\ IdleResp
    /\ IdleMac
    /\ IdlePa
    /\ IdleMap
    /\ IdleDriver
    /\ IdleDag
    /\ IdlePat
    /\ IdleFind
    /\ IdleClean
    /\ IdlePipe

NextCam == FetchCamWide \/ CamTotalComputed

SpecCam == InitCam /\ [][NextCam]_vars

\* The first non-null of the two level-of-consciousness columns of a row.
FirstLoc(v) ==
    IF v["CAM-ICU Altered LOC"] # Null
    THEN v["CAM-ICU Altered LOC"]
    ELSE v["CAM-ICU RASS LOC"]

PositiveRule(v) ==
    /\ v["CAM-ICU MS Change"] = "Yes"
    /\ v["CAM-ICU Inattention"] = "Yes"
    /\ (v["CAM-ICU Disorganized thinking"] = "Yes" \/ FirstLoc(v) = "Yes")

NegativeRule(v) ==
    \/ v["CAM-ICU MS Change"] = "No"
    \/ v["CAM-ICU Inattention"] = "No"
    \/ (v["CAM-ICU Disorganized thinking"] = "No" /\ FirstLoc(v) = "No")

\* C28: for every wide CAM-ICU row, with loc the first non-null of Altered
\* LOC and RASS LOC, cam_total is 'Positive' exactly when MS Change is Yes,
\* Inattention is Yes and Disorganized thinking or loc is Yes; 'Negative'
\* when MS Change is No, or Inattention is No, or Disorganized thinking and
\* loc are both No; null otherwise; and no row meets both rules.
C28_CamTotalFollowsTheRules ==
    pc = "cam_total_computed" =>
        /\ {<<r.hadm_id, r.time, r.value>> : r \in cam_total}
               = {<<w.hadm_id, w.time, w.value>> : w \in cam_wide}
        /\ \A r \in cam_total :
               /\ r.loc = FirstLoc(r.value)
               /\ r.cam_total = "Positive" <=> PositiveRule(r.value)
               /\ NegativeRule(r.value) => r.cam_total = "Negative"
               /\ ~PositiveRule(r.value) /\ ~NegativeRule(r.value) => r.cam_total = Null
               /\ ~(PositiveRule(r.value) /\ NegativeRule(r.value))

\* A row without Altered LOC and without Disorganized thinking whose RASS LOC
\* makes it positive.
C28_Witness ==
    /\ pc = "cam_total_computed"
    /\ \E r \in cam_total :
           /\ r.value["CAM-ICU Altered LOC"] = Null
           /\ r.value["CAM-ICU Disorganized thinking"] = Null
           /\ r.value["CAM-ICU RASS LOC"] = "Yes"
           /\ r.cam_total = "Positive"


(***************************************************************************)
(* MimicToClifBasePipeline (src/tables/base.py).  pc is "idle" between     *)
(* calls, "extract", "transform" and "load" while run is before that step, *)
(* "completed" after line 132 and "raised" when run re-raised (line 135).  *)
(* Python's None is the string "None"; a dict is a function, {} is <<>>.   *)
(***************************************************************************)
StepNames == {"extract", "transform"}
Results == {"df1", "df2"}
clif_table_name == "patient"

\* d[k] = v on a dict.
SetItem(d, k, v) == [x \in DOMAIN d \cup {k} |-> IF x = k THEN v ELSE d[x]]

\* dict.get(k).
Get(d, k) == IF k \in DOMAIN d THEN d[k] ELSE "None"

get_step_result(method_name) == Get(step_results, method_name)

get_current_step == current_step

get_available_steps == step_order

get_last_result ==
    IF step_order = <<>> THEN "None" ELSE Get(step_results, step_order[Len(step_order)])

\* Lines 40-50: a step wrapped by _track_step returns.
TrackedStepReturns ==
    /\ pc = "idle"
    /\ Len(calls) < MaxCalls
    /\ \E step_name \in StepNames, df_out \in Results :
          /\ step_results' = SetItem(step_results, step_name, df_out)
          /\ current_step' = step_name
          /\ step_order' =
                IF \E i \in DOMAIN step_order : step_order[i] = step_name
                THEN step_order
                ELSE Append(step_order, step_name)
          /\ calls' = Append(calls, [op |-> "step", name |-> step_name, result |-> df_out])
    /\ UNCHANGED <<pc, data, dev_mode, decorated, returned, log, saved, exception>>
    /\ UNCHANGED notPipeVars

\* Lines 51-53: the step raises, and the wrapper re-raises.
TrackedStepRaises ==
    /\ pc = "idle"
    /\ Len(calls) < MaxCalls
    /\ \E step_name \in StepNames :
          calls' = Append(calls, [op |-> "raise", name |-> step_name, result |-> "None"])
    /\ UNCHANGED <<pc, data, dev_mode, step_results, current_step, step_order>>
    /\ UNCHANGED <<decorated, returned, log, saved, exception>>
    /\ UNCHANGED notPipeVars

\* Lines 118-123.
ClearResults ==
    /\ pc = "idle"
    /\ Len(calls) < MaxCalls
    /\ step_results' = <<>>
    /\ step_order' = <<>>
    /\ current_step' = "None"
    /\ data' = "None"
    /\ calls' = Append(calls, [op |-> "clear", name |-> "None", result |-> "None"])
    /\ UNCHANGED <<pc, dev_mode, decorated, returned, log, saved, exception>>
    /\ UNCHANGED notPipeVars

\* Lines 133-135: the handler of run.
RunRaises(e) ==
    /\ pc' = "raised"
    /\ log' = Append(log, "Error")
    /\ exception' = e
    /\ UNCHANGED <<returned, saved>>

\* Line 127.
RunStarts ==
    /\ pc = "idle"
    /\ pc' = "extract"
    /\ log' = Append(log, "Starting")
    /\ UNCHANGED <<data, dev_mode, step_results, current_step, step_order, calls>>
    /\ UNCHANGED <<decorated, returned, saved, exception>>
    /\ UNCHANGED notPipeVars

\* Lines 129-130: extract or transform returns.  Under intm_store_in_dev the
\* wrapper then reads self.dev_mode (line 19), an attribute __init__ does not
\* set (line 31 sets _dev_mode): AttributeError.
StepReturns ==
    /\ pc \in StepNames
    /\ \E df_out \in Results :
          IF decorated
          THEN RunRaises("AttributeError")
          ELSE /\ returned' = SetItem(returned, pc, df_out)
               /\ pc' = IF pc = "extract" THEN "transform" ELSE "load"
               /\ UNCHANGED <<log, saved, exception>>
    /\ UNCHANGED <<data, dev_mode, step_results, current_step, step_order, calls, decorated>>
    /\ UNCHANGED notPipeVars

\* Lines 129-130: extract or transform raises.
StepRaises ==
    /\ pc \in StepNames
    /\ RunRaises("StepError")
    /\ UNCHANGED <<data, dev_mode, step_results, current_step, step_order, calls, decorated>>
    /\ UNCHANGED notPipeVars

\* Lines 131-132 and 147-151: load, and the end of run.  self.data is None
\* unless a step stored into it, and None[...] is a TypeError.
Load ==
    /\ pc = "load"
    /\ IF data = "None"
       THEN RunRaises("TypeError")
       ELSE IF "transform" \notin DOMAIN data
       THEN RunRaises("KeyError")
       ELSE /\ saved' = Append(saved, <<data["transform"], clif_table_name>>)
            /\ log' = log \o <<"Saved", "Completed">>
            /\ pc' = "completed"
            /\ UNCHANGED <<returned, exception>>
    /\ UNCHANGED <<data, dev_mode, step_results, current_step, step_order, calls, decorated>>
    /\ UNCHANGED notPipeVars

\* Lines 27-35: __init__, for either dev_mode; the steps of the subclass are
\* decorated with intm_store_in_dev or not.
InitPipeline ==
    /\ pc = "idle"
    /\ data = "None"
    /\ dev_mode \in BOOLEAN
    /\ step_results = <<>>
    /\ current_step = "None"
    /\ step_order = <<>>
    /\ calls = <<>>
    /\ decorated \in BOOLEAN
    /\ returned = <<>>
    /\ log = <<>>
    /\ saved = <<>>
    /\ exception = "None"
    /\ IdleResp
    /\ IdleMac
    /\ IdlePa
    /\ IdleMap
    /\ IdleDriver
    /\ IdleDag
    /\ IdlePat
    /\ IdleFind
    /\ IdleClean
    /\ IdleCam

NextPipeline ==
    \/ TrackedStepReturns
    \/ TrackedStepRaises
    \/ ClearResults
    \/ RunStarts
    \/ StepReturns
    \/ StepRaises
    \/ Load

SpecPipeline == InitPipeline /\ [][NextPipeline]_vars

\* The tracked steps that returned since the last clear_results, oldest first.
SinceClear ==
    LET clears == {i \in DOMAIN calls : calls[i].op = "clear"}
        from == IF clears = {} THEN 1
                ELSE (CHOOSE i \in clears : \A j \in clears : j <= i) + 1
    IN  SelectSeq(SubSeq(calls, from, Len(calls)), LAMBDA c : c.op = "step")

\* C29: after any sequence of tracked steps, re-runs among them, and
\* clear_results calls, get_last_result is the result of the most recently
\* executed step and get_current_step is its name, every name of
\* get_available_steps has a stored result, and after clear_results the three
\* report None, None and the empty list.
C29_LastResultIsOfTheLatestStep ==
    /\ \A i \in DOMAIN get_available_steps :
           get_available_steps[i] \in DOMAIN step_results
    /\ IF SinceClear = <<>>
       THEN /\ get_last_result = "None"
            /\ get_current_step = "None"
            /\ get_available_steps = <<>>
       ELSE /\ get_last_result = SinceClear[Len(SinceClear)].result
            /\ get_current_step = SinceClear[Len(SinceClear)].name

\* C30: run executes extract, transform and load in that order, each at most
\* once; when extract and transform succeed, load gives the transform's
\* result and the table name to save_to_rclif and run logs its completion;
\* when a step raises, no later step runs, the error is logged and the
\* exception reaches the caller.
C30_RunSavesTheTransformResult ==
    /\ pc = "raised" =>
           /\ exception # "None"
           /\ log[Len(log)] = "Error"
           /\ saved = <<>>
    /\ pc \in {"load", "completed", "raised"} /\ DOMAIN returned = StepNames =>
           /\ pc # "raised"
           /\ pc = "completed" =>
                  /\ saved = <<<<returned["transform"], clif_table_name>>>>
                  /\ log[Len(log)] = "Completed"
    /\ pc = "transform" => DOMAIN returned = {"extract"}
    /\ pc \in {"load", "completed"} => DOMAIN returned = StepNames
    /\ Len(saved) <= 1

=============================================================================
